---- MODULE Spec2Model ----
(***************************************************************************)
(* A model of the chatbot package of tcea-inventory-server: the            *)
(* byte-bounded LRU conversation store (LRUStore) and the per-connection   *)
(* chat handler (Handler.ServeHTTP) that drives the model-call / tool      *)
(* loop.                                                                   *)
(*                                                                         *)
(* Conventions.  A conversation id stands for the 32-character key that    *)
(* randKey(32) draws; ids are numbered in creation order, and a key is     *)
(* never drawn twice.  The front of the list lru (index 1) is the          *)
(* most-recently-used end, its back the least-recently-used end.  String   *)
(* contents are short tokens that JSON encodes without escapes, so the     *)
(* byte sizes below are the lengths encoding/json produces for them.       *)
(***************************************************************************)
EXTENDS Naturals, Integers, Sequences, FiniteSets, TLC

(***************************************************************************)
(* Bounds of the model                                                     *)
(***************************************************************************)
\* conversations ever created in one run of the store
MaxConvs == 3
\* messages one conversation of the store specification may hold
MaxMsgs == 2

(***************************************************************************)
(* State                                                                   *)
(***************************************************************************)
VARIABLES
    maxBytes,   \* LRUStore.maxBytes
    curBytes,   \* LRUStore.curBytes
    cache,      \* LRUStore.cache: id -> cacheEntry
    lru,        \* LRUStore.lru: ids, front (most recently used) first
    convs,      \* the Conversation objects allocated so far, by id
    ret,        \* the last store call: its operation and id, whether the id
                \* was in the cache, and the conversation and error returned
    useOrder,   \* history: all ids, most recently created/hit first
    touched,    \* history: ids hit by Get or AddMessages since creation
    conn,       \* per connection: the local variables of Handler.ServeHTTP
    out,        \* per connection: the messages written to the WebSocket
    tx,         \* per connection: the state of the handler's transaction
    db,         \* per connection: the tool calls executed under the transaction
    producer,   \* ChatStreamWithTools: "Request" (in httpClient.Do), "Failed"
                \* (it returned an error), "Scan" (its goroutine runs) or
                \* "Closed" (the goroutine has returned and closed ch)
    toolCallsMap,  \* the producer's toolCallsMap: index -> ToolCall
    ch,         \* the chunks the producer has sent on its channel
    scanned,    \* history: the deltas the producer has decoded
    lines,      \* history: the kind of every line the producer has read
    body,       \* the lines of the response body not yet read
    sending,    \* the chunk of a blocked `ch <- chunk`, if the goroutine is in one
    consumer,   \* the caller of ChatStreamWithTools: the error it was returned,
                \* the chunks it has received, whether it is inside
                \* conn.WriteJSON, whether it has stopped receiving
    mu,         \* LRUStore.mu: the thread that holds it, or 0
    thr         \* per thread of the locking specification: the store call it
                \* is in and how far it has got

storeVars == <<maxBytes, curBytes, cache, lru, convs, ret, useOrder, touched>>

handlerVars == <<conn, out, tx, db>>

streamVars == <<producer, toolCallsMap, ch, scanned, lines, body, sending,
                consumer>>

lockVars == <<mu, thr>>

vars == <<maxBytes, curBytes, cache, lru, convs, ret, useOrder, touched,
          conn, out, tx, db, producer, toolCallsMap, ch, scanned, lines, body,
          sending, consumer, mu, thr>>

\* the nil error
Nil == "nil"

\* the nil *Conversation
NilConv == 0

\* the budgets NewLRUStore is constructed with
Budgets == {130, 420}

\* lengths of a time.Time in RFC 3339 form: without and with nanoseconds
TimeLens == {20, 30}

(***************************************************************************)
(* Messages                                                                *)
(***************************************************************************)
\* Message.Content is a *string: <<>> is nil, <<s>> points to s
NoContent == <<>>

strPtr(s) == <<s>>

Message(role, content, toolCalls, toolCallID, name) ==
    [Role |-> role, Content |-> content, ToolCalls |-> toolCalls,
     ToolCallID |-> toolCallID, Name |-> name]

ToolCall(id, type, name, arguments) ==
    [ID |-> id, Type |-> type, Name |-> name, Arguments |-> arguments]

Last(q) == q[Len(q)]

RECURSIVE SumSeq(_)
SumSeq(q) == IF q = <<>> THEN 0 ELSE Head(q) + SumSeq(Tail(q))

\* the length of a JSON array of elements of the given lengths
ArrayBytes(lens) ==
    IF lens = <<>> THEN 2 ELSE 2 + SumSeq(lens) + (Len(lens) - 1)

\* the bytes encoding/json adds for a character of a string: a quote, a
\* backslash, a newline, a return and a tab are written with a backslash;
\* <, > and & are written as six-character \u escapes
EscapeOf(char) ==
    IF char \in {"\"", "\\", "\n", "\r", "\t"} THEN 1
    ELSE IF char \in {"<", ">", "&"} THEN 5
    ELSE 0

\* the bytes json.Marshal adds to the length of the string s
RECURSIVE Escapes(_)
Escapes(s) == IF s = "" THEN 0 ELSE EscapeOf(Head(s)) + Escapes(Tail(s))

\* the length of s as a JSON string, without its two quotes
StringBytes(s) == Len(s) + Escapes(s)

\* len of {"id":"..","type":"..","function":{"name":"..","arguments":".."}}
ToolCallBytes(tc) ==
    57 + StringBytes(tc.ID) + StringBytes(tc.Type) + StringBytes(tc.Name)
       + StringBytes(tc.Arguments)

\* the tool outputs of the model: a result object and the error objects
OkJSON == "{\"n\":1}"

\* `{"error": "` + msg + `"}`
ErrorJSON(msg) == "{\"error\": \"" \o msg \o "\"}"

\* Message.MarshalJSON: nil and empty content are both sent as null;
\* tool_calls, tool_call_id and name are omitted when empty
MarshalJSON(m) ==
    22 + StringBytes(m.Role)
    + (IF m.Content = NoContent \/ m.Content = <<"">>
         THEN 4 ELSE 2 + StringBytes(m.Content[1]))
    + (IF m.ToolCalls = <<>> THEN 0
         ELSE 14 + ArrayBytes([i \in 1..Len(m.ToolCalls) |->
                                  ToolCallBytes(m.ToolCalls[i])]))
    + (IF m.ToolCallID = "" THEN 0 ELSE 18 + StringBytes(m.ToolCallID))
    + (IF m.Name = "" THEN 0 ELSE 10 + StringBytes(m.Name))

(***************************************************************************)
(* LRUStore                                                                *)
(***************************************************************************)
\* a Conversation; CreatedAt and UpdatedAt hold the length of the formatted
\* time, the only part of a timestamp the store's size estimate depends on
Conversation(id, now) ==
    [ID |-> id, Messages |-> <<>>, CreatedAt |-> now, UpdatedAt |-> now]

\* A Conversation that nothing refers to any more: the store dropped it and
\* no handler holds the pointer
Freed == [ID |-> 0, Messages |-> <<>>, CreatedAt |-> 0, UpdatedAt |-> 0]

\* the conversations that running handlers, and the goroutines T that are
\* inside a store call with the entry they found, hold a pointer to
RefsOf(T) ==
    {conn[c].conv : c \in {d \in DOMAIN conn : conn[d].pc # "Returned"}}
    \cup {thr[t].conv : t \in {u \in T : thr[u].pc = "found"}}

\* the pointers that outlive a step of the goroutine self, whose local
\* variables (elem, entry) end with its call; self is 0 when the caller is a
\* handler, whose pointer is conn[c].conv
Refs(self) == RefsOf(DOMAIN thr \ {self})

\* the heap after the garbage collector has run, refs being the pointers held
CollectFor(heap, stored, refs) ==
    [i \in DOMAIN heap |-> IF i \in stored \cup refs THEN heap[i] ELSE Freed]

Collect(heap, stored, self) == CollectFor(heap, stored, Refs(self))

\* json.Marshal(conv): {"ID":"<32 chars>","Messages":[..],"CreatedAt":"..",
\* "UpdatedAt":".."}
estimateBytes(conv) ==
    83 + conv.CreatedAt + conv.UpdatedAt
    + ArrayBytes([i \in 1..Len(conv.Messages) |->
                     MarshalJSON(conv.Messages[i])])

\* container/list
\* (mutant: the new element is pushed to the back)
PushFront_Back(l, id) == l \o <<id>>

PushFront(l, id) == <<id>> \o l

\* (mutant: the element stays where it is)
MoveToFront_Stays(l, id) == l

MoveToFront(l, id) == <<id>> \o SelectSeq(l, LAMBDA x : x # id)

\* (mutant: the front element is taken)
Back_Front(l) == l[1]

Back(l) == l[Len(l)]

Remove(l, id) == SelectSeq(l, LAMBDA x : x # id)

\* the part of the store that an eviction pass changes
StoreState(cur, c, l) == [curBytes |-> cur, cache |-> c, lru |-> l]

\* (mutant: the evicted entry's bytes stay in the running total)
RECURSIVE evictIfNeeded_KeepsTotal(_, _, _)
evictIfNeeded_KeepsTotal(s, additionalBytes, max) ==
    IF s.curBytes + additionalBytes > max /\ Len(s.lru) > 0
    THEN LET oldest == Back(s.lru)
             entry == s.cache[oldest]
         IN  evictIfNeeded_KeepsTotal(
                 StoreState(s.curBytes,
                            [k \in DOMAIN s.cache \ {entry.id} |-> s.cache[k]],
                            Remove(s.lru, oldest)),
                 additionalBytes, max)
    ELSE s

\* (mutant: the bytes about to be added are not counted)
RECURSIVE evictIfNeeded_IgnoresAdditional(_, _, _)
evictIfNeeded_IgnoresAdditional(s, additionalBytes, max) ==
    IF s.curBytes > max /\ Len(s.lru) > 0
    THEN LET oldest == Back(s.lru)
             entry == s.cache[oldest]
         IN  evictIfNeeded_IgnoresAdditional(
                 StoreState(s.curBytes - entry.bytes,
                            [k \in DOMAIN s.cache \ {entry.id} |-> s.cache[k]],
                            Remove(s.lru, oldest)),
                 additionalBytes, max)
    ELSE s

RECURSIVE evictIfNeeded(_, _, _)
evictIfNeeded(s, additionalBytes, max) ==
    IF s.curBytes + additionalBytes > max /\ Len(s.lru) > 0
    THEN LET oldest == Back(s.lru)
             entry == s.cache[oldest]
         IN  evictIfNeeded(
                 StoreState(s.curBytes - entry.bytes,
                            [k \in DOMAIN s.cache \ {entry.id} |-> s.cache[k]],
                            Remove(s.lru, oldest)),
                 additionalBytes, max)
    ELSE s

\* history: id was created or hit just now
Used(order, id) == <<id>> \o SelectSeq(order, LAMBDA x : x # id)

\* (mutant: a miss is reported as an error)
Get_MissIsError(id) ==
    /\ IF id \in DOMAIN cache
       THEN /\ lru' = MoveToFront(lru, id)
            /\ ret' = [op |-> "Get", id |-> id, hit |-> TRUE,
                       conv |-> cache[id].conv, err |-> Nil]
            /\ useOrder' = Used(useOrder, id)
            /\ touched' = touched \cup {id}
       ELSE /\ lru' = lru
            /\ ret' = [op |-> "Get", id |-> id, hit |-> FALSE,
                       conv |-> NilConv, err |-> "conversation not found"]
            /\ UNCHANGED <<useOrder, touched>>
    /\ UNCHANGED <<maxBytes, curBytes, cache, convs>>

\* LRUStore.Get
Get(id) ==
    /\ IF id \in DOMAIN cache
       THEN /\ lru' = MoveToFront(lru, id)
            /\ ret' = [op |-> "Get", id |-> id, hit |-> TRUE,
                       conv |-> cache[id].conv, err |-> Nil]
            /\ useOrder' = Used(useOrder, id)
            /\ touched' = touched \cup {id}
       ELSE /\ lru' = lru
            /\ ret' = [op |-> "Get", id |-> id, hit |-> FALSE,
                       conv |-> NilConv, err |-> Nil]
            /\ UNCHANGED <<useOrder, touched>>
    /\ UNCHANGED <<maxBytes, curBytes, cache, convs>>

\* (mutant: the entry is inserted first, and the eviction pass may take it)
Create_EvictsNew(now) ==
    LET id == Len(convs) + 1
        conv == Conversation(id, now)
        bytes == estimateBytes(conv)
        entry == [id |-> id, conv |-> id, bytes |-> bytes]
        s == evictIfNeeded(
                 StoreState(curBytes + bytes,
                            [k \in DOMAIN cache \cup {id} |->
                                IF k = id THEN entry ELSE cache[k]],
                            PushFront(lru, id)),
                 0, maxBytes)
    IN  /\ convs' = Collect(Append(convs, conv), DOMAIN s.cache, 0)
        /\ lru' = s.lru
        /\ cache' = s.cache
        /\ curBytes' = s.curBytes
        /\ ret' = [op |-> "Create", id |-> id, hit |-> FALSE,
                   conv |-> id, err |-> Nil]
        /\ useOrder' = Used(useOrder, id)
        /\ UNCHANGED <<maxBytes, touched>>

\* LRUStore.Create called by the goroutine self; now is the formatted length
\* of time.Now()
CreateBy(self, now) ==
    LET id == Len(convs) + 1
        conv == Conversation(id, now)
        bytes == estimateBytes(conv)
        s == evictIfNeeded(StoreState(curBytes, cache, lru), bytes, maxBytes)
        entry == [id |-> id, conv |-> id, bytes |-> bytes]
    IN  /\ convs' = Collect(Append(convs, conv), DOMAIN s.cache \cup {id},
                            self)
        /\ lru' = PushFront(s.lru, id)
        /\ cache' = [k \in DOMAIN s.cache \cup {id} |->
                        IF k = id THEN entry ELSE s.cache[k]]
        /\ curBytes' = s.curBytes + bytes
        /\ ret' = [op |-> "Create", id |-> id, hit |-> FALSE,
                   conv |-> id, err |-> Nil]
        /\ useOrder' = Used(useOrder, id)
        /\ UNCHANGED <<maxBytes, touched>>

\* LRUStore.Create called by a handler
Create(now) == CreateBy(0, now)

\* (mutant: an unknown id is reported as an error)
AddMessages_UnknownIsError(id) ==
    /\ ret' = [op |-> "AddMessages", id |-> id, hit |-> FALSE,
               conv |-> NilConv, err |-> "conversation not found"]
    /\ UNCHANGED <<maxBytes, curBytes, cache, lru, convs, useOrder, touched>>

\* (mutant: an unknown id still runs the eviction of the oldest entry)
AddMessagesUnknown_Evicts(id) ==
    LET s == IF lru = <<>> THEN StoreState(curBytes, cache, lru)
             ELSE StoreState(curBytes - cache[Back(lru)].bytes,
                             [k \in DOMAIN cache \ {Back(lru)} |-> cache[k]],
                             Remove(lru, Back(lru)))
    IN  /\ curBytes' = s.curBytes
        /\ cache' = s.cache
        /\ lru' = s.lru
        /\ convs' = Collect(convs, DOMAIN s.cache, 0)
        /\ ret' = [op |-> "AddMessages", id |-> id, hit |-> FALSE,
                   conv |-> NilConv, err |-> Nil]
        /\ UNCHANGED <<maxBytes, useOrder, touched>>

\* LRUStore.AddMessages when the id is not in the cache: return nil
AddMessagesUnknown(id) ==
    /\ ret' = [op |-> "AddMessages", id |-> id, hit |-> FALSE,
               conv |-> NilConv, err |-> Nil]
    /\ UNCHANGED <<maxBytes, curBytes, cache, lru, convs, useOrder, touched>>

\* (mutant: the new messages are put before the stored ones)
AddMessages_Prepends(id, msgs, now) ==
    IF id \notin DOMAIN cache
    THEN AddMessagesUnknown(id)
    ELSE LET entry == cache[id]
             conv == [convs[entry.conv] EXCEPT
                          !.Messages = msgs \o convs[entry.conv].Messages,
                          !.UpdatedAt = now]
         IN  \E newBytes \in {estimateBytes(conv)} :
             \E s \in {evictIfNeeded(
                           StoreState(curBytes + (newBytes - entry.bytes),
                                      [cache EXCEPT ![id].bytes = newBytes],
                                      MoveToFront(lru, id)),
                           0, maxBytes)} :
                 /\ convs' = Collect([convs EXCEPT ![entry.conv] = conv],
                                      DOMAIN s.cache, 0)
                 /\ curBytes' = s.curBytes
                 /\ cache' = s.cache
                 /\ lru' = s.lru
                 /\ ret' = [op |-> "AddMessages", id |-> id, hit |-> TRUE,
                            conv |-> NilConv, err |-> Nil]
                 /\ useOrder' = Used(useOrder, id)
                 /\ touched' = touched \cup {id}
                 /\ UNCHANGED maxBytes

\* LRUStore.AddMessages called by the goroutine self; now is the formatted
\* length of time.Now()
AddMessagesBy(self, id, msgs, now) ==
    IF id \notin DOMAIN cache
    THEN AddMessagesUnknown(id)
    ELSE LET entry == cache[id]
             oldBytes == entry.bytes
             conv == [convs[entry.conv] EXCEPT
                          !.Messages = convs[entry.conv].Messages \o msgs,
                          !.UpdatedAt = now]
         IN  \E newBytes \in {estimateBytes(conv)} :
             \E s \in {evictIfNeeded(
                           StoreState(curBytes + (newBytes - oldBytes),
                                      [cache EXCEPT ![id].bytes = newBytes],
                                      MoveToFront(lru, id)),
                           0, maxBytes)} :
                 /\ convs' = Collect([convs EXCEPT ![entry.conv] = conv],
                                      DOMAIN s.cache, self)
                 /\ curBytes' = s.curBytes
                 /\ cache' = s.cache
                 /\ lru' = s.lru
                 /\ ret' = [op |-> "AddMessages", id |-> id, hit |-> TRUE,
                            conv |-> NilConv, err |-> Nil]
                 /\ useOrder' = Used(useOrder, id)
                 /\ touched' = touched \cup {id}
                 /\ UNCHANGED maxBytes

\* LRUStore.AddMessages called by a handler
AddMessages(id, msgs, now) == AddMessagesBy(0, id, msgs, now)

(***************************************************************************)
(* The store on its own, called with arbitrary arguments                   *)
(***************************************************************************)
\* NewLRUStore(maxBytes)
NewLRUStore ==
    /\ maxBytes \in Budgets
    /\ curBytes = 0
    /\ cache = <<>>
    /\ lru = <<>>
    /\ convs = <<>>
    /\ ret = [op |-> "NewLRUStore", id |-> 0, hit |-> FALSE,
              conv |-> NilConv, err |-> Nil]
    /\ useOrder = <<>>
    /\ touched = {}

userMessage(text) == Message("user", strPtr(text), <<>>, "", "")

\* the message lists AddMessages is called with in the store specification
Batches == {<<>>, <<userMessage("hi")>>}

CallGet == \E id \in 1..MaxConvs : Get(id)

CallCreate ==
    /\ Len(convs) < MaxConvs
    /\ \E now \in TimeLens : Create(now)

CallAddMessages ==
    \E id \in 1..MaxConvs, msgs \in Batches, now \in TimeLens :
        /\ id \in DOMAIN cache =>
               Len(convs[id].Messages) + Len(msgs) <= MaxMsgs
        /\ AddMessages(id, msgs, now)

\* no connection is open
NoHandlers ==
    /\ conn = <<>>
    /\ out = <<>>
    /\ tx = <<>>
    /\ db = <<>>

\* what the caller of ChatStreamWithTools holds before the call
NoConsumer == [err |-> Nil, received |-> 0, writing |-> FALSE, gone |-> FALSE]

\* no response of the backend is being read
NoStream ==
    /\ producer = "Closed"
    /\ toolCallsMap = <<>>
    /\ ch = <<>>
    /\ scanned = <<>>
    /\ lines = <<>>
    /\ body = 0
    /\ sending = <<>>
    /\ consumer = NoConsumer

\* no thread of the locking specification
NoThreads ==
    /\ mu = 0
    /\ thr = <<>>

InitStore == NewLRUStore /\ NoHandlers /\ NoStream /\ NoThreads

NextStore ==
    \/ CallGet /\ UNCHANGED <<handlerVars, streamVars, lockVars>>
    \/ CallCreate /\ UNCHANGED <<handlerVars, streamVars, lockVars>>
    \/ CallAddMessages /\ UNCHANGED <<handlerVars, streamVars, lockVars>>

SpecStore == InitStore /\ [][NextStore]_vars

(***************************************************************************)
(* The store under its mutex, called by concurrent goroutines              *)
(***************************************************************************)
\* the goroutines that call the store
Threads == {1, 2}

\* a goroutine that is in no call of the store
IdleThread ==
    [pc |-> "idle", op |-> "", id |-> 0, ok |-> FALSE, conv |-> NilConv]

\* the formatted length of time.Now() in the locking specification
LockNow == 20

\* (mutant: Lock does not wait for the mutex to be free)
Lock_NoExclusion(t) ==
    /\ thr[t].pc = "idle"
    /\ mu' = t
    /\ \E op \in {"Get", "Create", "AddMessages"} :
       \E id \in IF op = "Create" THEN {0} ELSE 1..MaxConvs :
           /\ op = "Create" => Len(convs) < MaxConvs
           /\ thr' = [thr EXCEPT ![t] = [IdleThread EXCEPT
                          !.pc = "locked", !.op = op, !.id = id]]
    /\ UNCHANGED <<storeVars, handlerVars, streamVars>>

\* s.mu.Lock() at the head of Get, Create and AddMessages
Lock(t) ==
    /\ thr[t].pc = "idle"
    /\ mu = 0
    /\ mu' = t
    /\ \E op \in {"Get", "Create", "AddMessages"} :
       \E id \in IF op = "Create" THEN {0} ELSE 1..MaxConvs :
           /\ op = "Create" => Len(convs) < MaxConvs
           /\ thr' = [thr EXCEPT ![t] = [IdleThread EXCEPT
                          !.pc = "locked", !.op = op, !.id = id]]
    /\ UNCHANGED <<storeVars, handlerVars, streamVars>>

\* elem, ok := s.cache[id] in Get and AddMessages; in Create, the new
\* Conversation is made
Lookup(t) ==
    /\ thr[t].pc = "locked"
    /\ LET id == thr[t].id
           ok == id \in DOMAIN cache
       IN  thr' = [thr EXCEPT
               ![t].pc = "found",
               ![t].ok = ok,
               ![t].conv = IF ok THEN cache[id].conv ELSE NilConv]
    /\ UNCHANGED <<storeVars, handlerVars, streamVars, mu>>

\* the rest of Get when the cache has changed since the lookup: the element
\* found is returned, and MoveToFront does nothing for an element that is no
\* longer in the list
GetStale(t) ==
    /\ ret' = [op |-> "Get", id |-> thr[t].id, hit |-> thr[t].ok,
               conv |-> thr[t].conv, err |-> Nil]
    /\ UNCHANGED <<maxBytes, curBytes, cache, lru, convs, useOrder, touched>>

\* the rest of AddMessages when the cache has changed since the lookup: the
\* entry found is no longer in the cache; its conversation, which the entry
\* keeps alive, gets the messages, entry.bytes (the estimate of the
\* conversation as it was) is replaced, the growth is added to the total,
\* MoveToFront does nothing for the removed element, and the eviction runs
AddMessagesStale(t, msgs) ==
    IF ~thr[t].ok
    THEN AddMessagesUnknown(thr[t].id)
    ELSE LET old == convs[thr[t].conv]
             oldBytes == estimateBytes(old)
             conv == [old EXCEPT !.Messages = old.Messages \o msgs,
                                 !.UpdatedAt = LockNow]
         IN  \E newBytes \in {estimateBytes(conv)} :
             \E s \in {evictIfNeeded(
                           StoreState(curBytes + (newBytes - oldBytes),
                                      cache, lru),
                           0, maxBytes)} :
             /\ curBytes' = s.curBytes
             /\ cache' = s.cache
             /\ lru' = s.lru
             /\ convs' = CollectFor([convs EXCEPT ![thr[t].conv] = conv],
                                    DOMAIN s.cache,
                                    Refs(t))
             /\ ret' = [op |-> "AddMessages", id |-> thr[t].id, hit |-> TRUE,
                        conv |-> NilConv, err |-> Nil]
             /\ UNCHANGED <<maxBytes, useOrder, touched>>

\* the rest of the call, and the deferred s.mu.Unlock()
Finish(t) ==
    /\ thr[t].pc = "found"
    /\ LET h == thr[t]
           fresh == h.ok = (h.id \in DOMAIN cache)
       IN  \/ /\ h.op = "Get"
              /\ IF fresh THEN Get(h.id) ELSE GetStale(t)
           \/ /\ h.op = "Create"
              /\ CreateBy(t, LockNow)
           \/ /\ h.op = "AddMessages"
              /\ \E msgs \in Batches :
                     /\ h.id \in DOMAIN cache =>
                            Len(convs[h.id].Messages) + Len(msgs) <= MaxMsgs
                     /\ h.ok =>
                            Len(convs[h.conv].Messages) + Len(msgs) <= MaxMsgs
                     /\ IF fresh THEN AddMessagesBy(t, h.id, msgs, LockNow)
                        ELSE AddMessagesStale(t, msgs)
    /\ mu' = 0
    /\ thr' = [thr EXCEPT ![t] = IdleThread]
    /\ UNCHANGED <<handlerVars, streamVars>>

InitLock ==
    /\ NewLRUStore
    /\ NoHandlers
    /\ NoStream
    /\ mu = 0
    /\ thr = [t \in Threads |-> IdleThread]

NextLock ==
    \E t \in Threads :
        \/ Lock(t)
        \/ Lookup(t)
        \/ Finish(t)

SpecLock == InitLock /\ [][NextLock]_vars


(***************************************************************************)
(* The streaming backend, as the handler sees it                           *)
(***************************************************************************)
\* a StreamChunk
Chunk(content, toolCalls, finishReason, err) ==
    [Content |-> content, ToolCalls |-> toolCalls,
     FinishReason |-> finishReason, Err |-> err]

statsCall == ToolCall("t1", "function", "get_stats", "")

bogusCall == ToolCall("t2", "function", "bogus", "{}")

\* What ChatStreamWithTools can put on the channel before closing it.
\* a round that asks for one tool call
ToolRound == <<Chunk("", <<statsCall>>, "tool_calls", Nil)>>

\* a round with text and two tool calls
TextAndTools ==
    <<Chunk("a", <<>>, "", Nil),
      Chunk("", <<statsCall, bogusCall>>, "tool_calls", Nil)>>

\* the final answer, in two deltas
FinalAnswer == <<Chunk("a", <<>>, "", Nil), Chunk("b", <<>>, "stop", Nil)>>

\* the channel is closed before any chunk ([DONE] comes first)
ClosedAtOnce == <<>>

\* the stream breaks after a first delta
BrokenStream ==
    <<Chunk("a", <<>>, "", Nil),
      Chunk("", <<>>, "", "failed to read stream")>>

\* a tool-call round that the backend then ends with "stop"
ToolsThenStop ==
    <<Chunk("", <<statsCall>>, "tool_calls", Nil), Chunk("", <<>>, "stop", Nil)>>

Streams ==
    {ToolRound, TextAndTools, FinalAnswer, ClosedAtOnce, BrokenStream,
     ToolsThenStop}

\* the streams after which the handler's loop goes on
Continuing == {ToolRound, TextAndTools}

(***************************************************************************)
(* AIClient.ChatStreamWithTools: the goroutine that reads the response     *)
(***************************************************************************)
\* deltas the producer decodes from one response
MaxEvents == 3

\* a StreamToolCall: a fragment of a tool call
StreamToolCall(index, id, type, name, arguments) ==
    [Index |-> index, ID |-> id, Type |-> type, Name |-> name,
     Arguments |-> arguments]

\* the first choice of a decoded "data: " line
Delta(content, toolCalls, finishReason) ==
    [Content |-> content, ToolCalls |-> toolCalls, FinishReason |-> finishReason]

\* the indexes fragments carry
Indexes == {0, 1, 2}

\* the pieces an arguments string arrives in
ArgPieces == {"{\"a\"", ":1}"}

\* the fragments of a response: with the identity of a call, at any index;
\* with no identity, at any index; with another identity, at index 0
Fragments ==
    {StreamToolCall(i, "t1", "function", "get_stats", a) :
         i \in Indexes, a \in ArgPieces}
    \cup {StreamToolCall(i, "", "", "", a) : i \in Indexes, a \in ArgPieces}
    \cup {StreamToolCall(0, "t2", "function", "get_device", a) : a \in ArgPieces}

\* the deltas of a response: text (two texts, and the empty text), one
\* fragment, two fragments, a finish reason
Deltas ==
    {Delta(strPtr(t), <<>>, "") : t \in {"a", "b", ""}}
    \cup {Delta(NoContent, <<f>>, "") : f \in Fragments}
    \cup {Delta(NoContent,
                <<StreamToolCall(0, "t1", "function", "get_stats", ""),
                  StreamToolCall(1, "t2", "function", "get_device", "")>>,
                "")}
    \cup {Delta(NoContent, <<>>, r) : r \in {"tool_calls", "stop"}}

\* (mutant: a later fragment replaces the arguments)
accumulate_Overwrites(m, tc) ==
    IF tc.Index \notin DOMAIN m
    THEN (tc.Index :> ToolCall(tc.ID, tc.Type, tc.Name, tc.Arguments)) @@ m
    ELSE [m EXCEPT ![tc.Index].Arguments = tc.Arguments]

\* (mutant: a later fragment that names a call replaces the identity)
accumulate_TakesLaterIdentity(m, tc) ==
    IF tc.Index \notin DOMAIN m \/ tc.ID # ""
    THEN (tc.Index :> ToolCall(tc.ID, tc.Type, tc.Name,
                               (IF tc.Index \in DOMAIN m
                                  THEN m[tc.Index].Arguments ELSE "")
                               \o tc.Arguments)) @@ m
    ELSE [m EXCEPT ![tc.Index].Arguments = @ \o tc.Arguments]

\* one pass of: for _, tc := range choice.Delta.ToolCalls
accumulate(m, tc) ==
    IF tc.Index \notin DOMAIN m
    THEN (tc.Index :> ToolCall(tc.ID, tc.Type, tc.Name, tc.Arguments)) @@ m
    ELSE [m EXCEPT ![tc.Index].Arguments = @ \o tc.Arguments]

\* the whole loop over the fragments of a delta
RECURSIVE accumulateAll(_, _)
accumulateAll(m, tcs) ==
    IF tcs = <<>> THEN m
    ELSE accumulateAll(accumulate(m, Head(tcs)), Tail(tcs))

\* for i := 0; i < len(toolCallsMap); i++, from i on
RECURSIVE collectFrom(_, _)
collectFrom(m, i) ==
    IF i >= Cardinality(DOMAIN m) THEN <<>>
    ELSE (IF i \in DOMAIN m THEN <<m[i]>> ELSE <<>>) \o collectFrom(m, i + 1)

\* the tool calls sent when the finish reason is "tool_calls"
collectToolCalls(m) == collectFrom(m, 0)

\* the errors ChatStreamWithTools returns instead of a channel: of
\* httpClient.Do, of a status other than 200
ModelCallErrors == {"failed to make request", "API error (status 500)"}

\* ch := make(chan StreamChunk, 100)
ChanCap == 100

\* the lines of the response of the cancellation specification
MaxFrames == 101

\* the channel's buffer is not full
Room == Len(ch) - consumer.received < ChanCap

\* (mutant: the accumulated calls go out with every chunk)
chunkOf_EmitsEarly(m, d) ==
    Chunk(IF d.Content # NoContent /\ d.Content[1] # "" THEN d.Content[1] ELSE "",
          collectToolCalls(m), d.FinishReason, Nil)

\* (mutant: text is held back while fragments are pending)
chunkOf_HoldsContent(m, d) ==
    Chunk(IF d.Content # NoContent /\ d.Content[1] # "" /\ DOMAIN m = {}
            THEN d.Content[1] ELSE "",
          IF d.FinishReason = "tool_calls" THEN collectToolCalls(m) ELSE <<>>,
          d.FinishReason, Nil)

\* the chunk of the delta d, m being the calls accumulated up to and with d
chunkOf(m, d) ==
    Chunk(IF d.Content # NoContent /\ d.Content[1] # "" THEN d.Content[1] ELSE "",
          IF d.FinishReason = "tool_calls" THEN collectToolCalls(m) ELSE <<>>,
          d.FinishReason, Nil)

\* ch <- chunk: into the buffer, or the goroutine blocks with the chunk
send(chunk) ==
    IF Room THEN ch' = Append(ch, chunk) /\ sending' = <<>>
    ELSE ch' = ch /\ sending' = <<chunk>>

\* resp, err := c.httpClient.Do(httpReq) and the check of the status: an error
\* is returned to the caller, else the channel is made and the goroutine started
DoRequest ==
    /\ producer = "Request"
    /\ \E err \in {Nil} \cup ModelCallErrors :
           IF err = Nil
           THEN producer' = "Scan" /\ consumer' = consumer
           ELSE producer' = "Failed" /\ consumer' = [consumer EXCEPT !.err = err]
    /\ UNCHANGED <<storeVars, handlerVars, lockVars, toolCallsMap, ch, scanned, lines,
                   body, sending>>

\* a "data: " line that decodes to the delta d
ScanData(d) ==
    /\ producer = "Scan"
    /\ sending = <<>>
    /\ body > 0
    /\ LET m == accumulateAll(toolCallsMap, d.ToolCalls)
           chunk == chunkOf(m, d)
       IN  /\ toolCallsMap' = m
           /\ IF chunk.Content # "" \/ chunk.FinishReason # ""
                   \/ Len(chunk.ToolCalls) > 0
              THEN send(chunk)
              ELSE ch' = ch /\ sending' = sending
           /\ scanned' = Append(scanned, d)
    /\ body' = body - 1
    /\ lines' = Append(lines, "data")
    /\ producer' = producer
    /\ UNCHANGED <<storeVars, handlerVars, lockVars, consumer>>

\* (mutant: a line that is not data ends the stream with an error chunk)
ScanSkip_IsError ==
    /\ producer = "Scan"
    /\ sending = <<>>
    /\ body > 0
    /\ body' = body - 1
    /\ lines' = Append(lines, "other")
    /\ send(Chunk("", <<>>, "", "failed to parse SSE data"))
    /\ producer' = "Closed"
    /\ UNCHANGED <<storeVars, handlerVars, lockVars, toolCallsMap, scanned,
                   consumer>>

\* a line without the prefix "data: ", or a data line without choices:
\* continue
ScanSkip ==
    /\ producer = "Scan"
    /\ sending = <<>>
    /\ body > 0
    /\ body' = body - 1
    /\ \E kind \in {"other", "nochoices"} : lines' = Append(lines, kind)
    /\ UNCHANGED <<storeVars, handlerVars, lockVars, producer, toolCallsMap, ch,
                   scanned, sending, consumer>>

\* the line "data: [DONE]": return, and the deferred close(ch)
ScanDone ==
    /\ producer = "Scan"
    /\ sending = <<>>
    /\ body > 0
    /\ body' = body - 1
    /\ lines' = Append(lines, "done")
    /\ producer' = "Closed"
    /\ UNCHANGED <<storeVars, handlerVars, lockVars, toolCallsMap, ch, scanned,
                   sending, consumer>>

\* a "data: " line that json.Unmarshal rejects
ScanBadData ==
    /\ producer = "Scan"
    /\ sending = <<>>
    /\ body > 0
    /\ body' = body - 1
    /\ lines' = Append(lines, "bad")
    /\ send(Chunk("", <<>>, "", "failed to parse SSE data"))
    /\ producer' = IF Room THEN "Closed" ELSE producer
    /\ UNCHANGED <<storeVars, handlerVars, lockVars, toolCallsMap, scanned,
                   consumer>>

\* scanner.Scan() returns false: the body has ended, or reading it failed
ScanEnd ==
    /\ producer = "Scan"
    /\ sending = <<>>
    /\ \E err \in {Nil, "failed to read stream"} :
           IF err = Nil
           THEN /\ body = 0
                /\ producer' = "Closed"
                /\ UNCHANGED <<ch, sending>>
           ELSE /\ send(Chunk("", <<>>, "", err))
                /\ producer' = IF Room THEN "Closed" ELSE producer
    /\ UNCHANGED <<storeVars, handlerVars, lockVars, toolCallsMap, scanned, lines,
                   body, consumer>>

\* a blocked `ch <- chunk` goes through; after an error chunk the goroutine
\* returns
SendBlocked ==
    /\ producer = "Scan"
    /\ sending # <<>>
    /\ Room
    /\ ch' = Append(ch, sending[1])
    /\ sending' = <<>>
    /\ producer' = IF sending[1].Err # Nil THEN "Closed" ELSE producer
    /\ UNCHANGED <<storeVars, handlerVars, lockVars, toolCallsMap, scanned, lines,
                   body, consumer>>

\* the caller's `for chunk := range streamCh` takes a chunk: on an error
\* chunk the handler returns; with content it calls conn.WriteJSON
Receive ==
    /\ producer \in {"Scan", "Closed"}
    /\ ~consumer.gone
    /\ ~consumer.writing
    /\ consumer.received < Len(ch)
    /\ LET chunk == ch[consumer.received + 1]
       IN  consumer' = [consumer EXCEPT
                           !.received = @ + 1,
                           !.writing = chunk.Err = Nil /\ chunk.Content # "",
                           !.gone = chunk.Err # Nil]
    /\ UNCHANGED <<storeVars, handlerVars, lockVars, producer, toolCallsMap, ch,
                   scanned, lines, body, sending>>

\* conn.WriteJSON of the chunk's text returns nil: the loop goes on
WriteChunk ==
    /\ producer \in {"Scan", "Closed"}
    /\ ~consumer.gone
    /\ consumer.writing
    /\ consumer' = [consumer EXCEPT !.writing = FALSE]
    /\ UNCHANGED <<storeVars, handlerVars, lockVars, producer, toolCallsMap, ch,
                   scanned, lines, body, sending>>

\* conn.WriteJSON of the chunk's text fails and the handler returns inside
\* the loop: nothing receives from the channel any more, and the request's
\* context is cancelled
StopConsuming ==
    /\ producer \in {"Scan", "Closed"}
    /\ ~consumer.gone
    /\ consumer.writing
    /\ consumer' = [consumer EXCEPT !.writing = FALSE, !.gone = TRUE]
    /\ UNCHANGED <<storeVars, handlerVars, lockVars, producer, toolCallsMap, ch,
                   scanned, lines, body, sending>>

\* ChatStreamWithTools has been called; the body of the response, if one
\* comes, has up to MaxEvents lines
InitStream ==
    /\ NewLRUStore
    /\ \A b \in Budgets : maxBytes >= b
    /\ NoHandlers
    /\ NoThreads
    /\ producer = "Request"
    /\ toolCallsMap = <<>>
    /\ ch = <<>>
    /\ scanned = <<>>
    /\ lines = <<>>
    /\ body \in 0..MaxEvents
    /\ sending = <<>>
    /\ consumer = NoConsumer

NextStream ==
    \/ DoRequest
    \/ \E d \in Deltas : ScanData(d)
    \/ ScanSkip
    \/ ScanDone
    \/ ScanBadData
    \/ ScanEnd

SpecStream == InitStream /\ [][NextStream]_vars

\* the delta of a token of text
TextDelta == Delta(strPtr("a"), <<>>, "")

\* ChatStreamWithTools has been called by a handler that may stop receiving;
\* the body of the response is long enough to fill the channel's buffer
InitCancel ==
    /\ NewLRUStore
    /\ \A b \in Budgets : maxBytes >= b
    /\ NoHandlers
    /\ NoThreads
    /\ producer = "Request"
    /\ toolCallsMap = <<>>
    /\ ch = <<>>
    /\ scanned = <<>>
    /\ lines = <<>>
    /\ body = MaxFrames
    /\ sending = <<>>
    /\ consumer = NoConsumer

\* the steps of ChatStreamWithTools and of its goroutine
ProducerStep ==
    \/ DoRequest
    \/ ScanData(TextDelta)
    \/ ScanDone
    \/ ScanEnd
    \/ SendBlocked

NextCancel ==
    \/ ProducerStep
    \/ Receive
    \/ WriteChunk
    \/ StopConsuming

SpecCancel == InitCancel /\ [][NextCancel]_vars

\* the goroutine is scheduled as long as it can take a step
FairCancel == SpecCancel /\ WF_vars(ProducerStep)

(***************************************************************************)
(* ToolExecutor                                                            *)
(***************************************************************************)
\* the names Execute dispatches on (two of the twelve)
ToolNames == {"get_stats", "get_device"}

\* the argument strings json.Unmarshal decodes into a map
ValidArguments == {"{}", "{\"a\":1}", "{\"id\":1}"}

\* the argument strings Execute is called with
ArgumentStrings == {""} \cup ValidArguments \cup ArgPieces

\* json.Unmarshal([]byte(arguments), &args) of a valid string; the empty
\* string is not decoded and leaves the map nil
Unmarshal(arguments) ==
    IF arguments = "{\"a\":1}" THEN [a |-> 1]
    ELSE IF arguments = "{\"id\":1}" THEN [id |-> 1]
    ELSE <<>>

\* the error of json.Unmarshal for a string that is not valid JSON
ParseError(arguments) ==
    IF arguments = "{\"a\"" THEN "unexpected end of JSON input"
    ELSE "invalid character ':' looking for beginning of value"

\* getInt64(args, key)
getInt64(args, key) == IF key \in DOMAIN args THEN args[key] ELSE 0

\* what the domain operation of a call does: it returns its result, it
\* returns an error, it finds no row, its result cannot be marshalled
Outcomes == {"ok", "fail", "missing", "nomarshal"}

\* the text of the error of a domain operation that failed
QueryError == "Server Error: Could not query: driver: bad connection"

\* json.Marshal(map[string]string{"error": "device not found"})
NotFoundJSON == "{\"error\":\"device not found\"}"

\* the text of the error of json.Marshal
MarshalError == "json: unsupported value"

\* the call reaches its domain operation (a call of the api package)
Runs(name, arguments) ==
    /\ arguments = "" \/ arguments \in ValidArguments
    /\ name \in ToolNames
    /\ name = "get_device" => getInt64(Unmarshal(arguments), "id") # 0

\* what the domain operations do in the turns of the handler specifications
TurnOutcomes == {"ok", "fail"}

\* (mutant: an unknown name gives a result and no error)
Execute_UnknownAsResult(name, arguments, outcome) ==
    IF arguments # "" /\ arguments \notin ValidArguments
    THEN [content |-> "",
          err |-> "failed to parse arguments: " \o ParseError(arguments),
          ran |-> FALSE]
    ELSE IF name \notin ToolNames
    THEN [content |-> ErrorJSON("unknown tool: " \o name), err |-> Nil,
          ran |-> FALSE]
    ELSE IF ~Runs(name, arguments)
    THEN [content |-> ErrorJSON("id is required"), err |-> Nil, ran |-> FALSE]
    ELSE IF outcome = "fail"
    THEN [content |-> ErrorJSON(QueryError), err |-> Nil, ran |-> TRUE]
    ELSE IF outcome = "missing" /\ name = "get_device"
    THEN [content |-> NotFoundJSON, err |-> Nil, ran |-> TRUE]
    ELSE IF outcome = "nomarshal"
    THEN [content |-> "", err |-> "failed to marshal result: " \o MarshalError,
          ran |-> TRUE]
    ELSE [content |-> OkJSON, err |-> Nil, ran |-> TRUE]

\* ToolExecutor.Execute; outcome is what the domain operation does. get_device
\* without an id returns "id is required" before any domain operation; the
\* error of a domain operation is returned as a JSON object, with no error
Execute(name, arguments, outcome) ==
    IF arguments # "" /\ arguments \notin ValidArguments
    THEN [content |-> "",
          err |-> "failed to parse arguments: " \o ParseError(arguments),
          ran |-> FALSE]
    ELSE IF name \notin ToolNames
    THEN [content |-> "", err |-> "unknown tool: " \o name, ran |-> FALSE]
    ELSE IF ~Runs(name, arguments)
    THEN [content |-> ErrorJSON("id is required"), err |-> Nil, ran |-> FALSE]
    ELSE IF outcome = "fail"
    THEN [content |-> ErrorJSON(QueryError), err |-> Nil, ran |-> TRUE]
    ELSE IF outcome = "missing" /\ name = "get_device"
    THEN [content |-> NotFoundJSON, err |-> Nil, ran |-> TRUE]
    ELSE IF outcome = "nomarshal"
    THEN [content |-> "", err |-> "failed to marshal result: " \o MarshalError,
          ran |-> TRUE]
    ELSE [content |-> OkJSON, err |-> Nil, ran |-> TRUE]

(***************************************************************************)
(* Handler.ServeHTTP                                                       *)
(***************************************************************************)
\* maxIterations := 10
maxIterations == 10

\* rounds of one turn that may differ from the plain one-tool-call round
MaxVaried == 1

\* the connections of the handler specification
Conns == {1}

SystemPrompt == "sys"

\* the conversation_id parameters a client sends: none (0), the id of the
\* stored conversation, an id the store does not know
ConversationIDs == {0, 1, 2}

\* the texts a client sends as its message
ClientTexts == {"", "hi"}

ServerMessage(type, content, conversationID, error) ==
    [Type |-> type, Content |-> content, ConversationID |-> conversationID,
     Error |-> error]

\* an entry of the history of a connection: what was done (e), to what (a),
\* and for the end of a round the number of its tool calls (n)
Event(e, a, n) == [e |-> e, a |-> a, n |-> n]

\* the locals of ServeHTTP before the upgrade; started is the number of tool
\* calls of the round that executeToolsSequential has passed to Execute;
\* calls, varied and trace are history: the model calls made, the rounds
\* that were not the plain one (two tool calls, or a tool that failed), and
\* the steps taken so far
Locals ==
    [pc |-> "Upgrade", conversationID |-> 0, conv |-> NilConv, clientMsg |-> "",
     messages |-> <<>>, newMessages |-> <<>>, i |-> 0, streamCh |-> <<>>,
     fullContent |-> "", toolCalls |-> <<>>, finishReason |-> "",
     toolResults |-> <<>>, started |-> 0, calls |-> 0, varied |-> 0,
     trace |-> <<>>]

\* (mutant: the deferred call commits)
Rollback_Commits(t) == IF t = "open" THEN "committed" ELSE t

\* the deferred tx.Rollback(): it ends a transaction that is still open; on a
\* Tx that Commit has ended, also when the commit failed, it returns
\* sql.ErrTxDone and does nothing
Rollback(t) == IF t = "open" THEN "rolledback" ELSE t

\* Handler.sendError, followed by the return
sendError(c, msg) ==
    /\ out' = [out EXCEPT ![c] = Append(@, ServerMessage("error", "", 0, msg))]
    /\ tx' = [tx EXCEPT ![c] = Rollback(@)]

\* a return that writes nothing
return(c) ==
    /\ out' = out
    /\ tx' = [tx EXCEPT ![c] = Rollback(@)]

\* Handler.buildMessages
buildMessages(conv, text) ==
    <<Message("system", strPtr(SystemPrompt), <<>>, "", "")>>
    \o convs[conv].Messages
    \o <<Message("user", strPtr(text), <<>>, "", "")>>

\* upgrader.Upgrade, and the conversation_id of the request
Upgrade(c) ==
    /\ conn[c].pc = "Upgrade"
    /\ \/ /\ conn' = [conn EXCEPT ![c].pc = "Returned"]
       \/ \E id \in ConversationIDs :
              conn' = [conn EXCEPT ![c].conversationID = id,
                                   ![c].pc = IF id # 0 THEN "Get" ELSE "Create"]
    /\ UNCHANGED <<storeVars, out, tx, db>>

\* conv, err = h.store.Get(conversationID)
LoadConversation(c) ==
    /\ conn[c].pc = "Get"
    /\ Get(conn[c].conversationID)
    /\ IF ret'.err # Nil
       THEN /\ sendError(c, "Failed to load conversation")
            /\ conn' = [conn EXCEPT ![c].pc = "Returned"]
       ELSE /\ conn' = [conn EXCEPT
                  ![c].conv = ret'.conv,
                  ![c].pc = IF ret'.conv = NilConv THEN "Create" ELSE "Read"]
            /\ UNCHANGED <<out, tx>>
    /\ UNCHANGED db

\* conv, err = h.store.Create()
CreateConversation(c) ==
    /\ conn[c].pc = "Create"
    /\ Len(convs) < MaxConvs
    /\ \E now \in TimeLens : Create(now)
    /\ IF ret'.err # Nil
       THEN /\ sendError(c, "Failed to create conversation")
            /\ conn' = [conn EXCEPT ![c].pc = "Returned"]
       ELSE /\ conn' = [conn EXCEPT ![c].conv = ret'.conv, ![c].pc = "Read"]
            /\ UNCHANGED <<out, tx>>
    /\ UNCHANGED db

\* (mutant: the message is not checked)
ReadMessage_AcceptsEmpty(c) ==
    /\ conn[c].pc = "Read"
    /\ \/ /\ sendError(c, "Failed to read message")
          /\ conn' = [conn EXCEPT ![c].pc = "Returned"]
       \/ \E text \in ClientTexts :
              /\ conn' = [conn EXCEPT
                     ![c].clientMsg = text,
                     ![c].trace = Append(@, Event("read", text, 0)),
                     ![c].pc = "Build"]
              /\ UNCHANGED <<out, tx>>
    /\ UNCHANGED <<storeVars, db>>

\* conn.ReadJSON(&clientMsg) and the check of the message
ReadMessage(c) ==
    /\ conn[c].pc = "Read"
    /\ \/ /\ sendError(c, "Failed to read message")
          /\ conn' = [conn EXCEPT ![c].pc = "Returned"]
       \/ \E text \in ClientTexts :
              IF text = ""
              THEN /\ sendError(c, "Message cannot be empty")
                   /\ conn' = [conn EXCEPT
                          ![c].clientMsg = text,
                          ![c].trace = Append(@, Event("read", text, 0)),
                          ![c].pc = "Returned"]
              ELSE /\ conn' = [conn EXCEPT
                          ![c].clientMsg = text,
                          ![c].trace = Append(@, Event("read", text, 0)),
                          ![c].pc = "Build"]
                   /\ UNCHANGED <<out, tx>>
    /\ UNCHANGED <<storeVars, db>>

\* messages := h.buildMessages(conv, clientMsg.Message)
BuildMessages(c) ==
    /\ conn[c].pc = "Build"
    /\ conn' = [conn EXCEPT
           ![c].messages = buildMessages(conn[c].conv, conn[c].clientMsg),
           ![c].pc = "Begin"]
    /\ UNCHANGED <<storeVars, out, tx, db>>

\* what a read of memory that is being written can find in place of a Message
Torn == Message("", NoContent, <<>>, "", "")

\* buildMessages when other goroutines run: append(messages, conv.Messages...)
\* loads the slice conv.Messages, without the store's mutex
StartBuild(c) ==
    /\ conn[c].pc = "Build"
    /\ conn' = [conn EXCEPT
           ![c].messages = <<Message("system", strPtr(SystemPrompt), <<>>, "", "")>>
                           \o convs[conn[c].conv].Messages,
           ![c].pc = "Building"]
    /\ UNCHANGED <<storeVars, out, tx, db>>

\* the copy of the elements ends.  When an AddMessages has written the slice
\* in the meantime the load was a data race: the copy holds the list as it
\* was, or as it is, or the old list and memory past its end
FinishBuild(c) ==
    /\ conn[c].pc = "Building"
    /\ LET old == Tail(conn[c].messages)
           cur == convs[conn[c].conv].Messages
       IN  \E read \in IF cur = old THEN {old}
                       ELSE {old, cur, Append(old, Torn)} :
               conn' = [conn EXCEPT
                   ![c].messages =
                       <<Message("system", strPtr(SystemPrompt), <<>>, "", "")>>
                       \o read
                       \o <<Message("user", strPtr(conn[c].clientMsg), <<>>, "", "")>>,
                   ![c].pc = "Begin"]
    /\ UNCHANGED <<storeVars, out, tx, db>>

\* tx, err := h.db.Begin(), and the first entry of newMessages
Begin(c) ==
    /\ conn[c].pc = "Begin"
    /\ \/ /\ sendError(c, "Database error")
          /\ conn' = [conn EXCEPT ![c].pc = "Returned"]
       \/ /\ tx' = [tx EXCEPT ![c] = "open"]
          /\ conn' = [conn EXCEPT
                 ![c].newMessages =
                     <<Message("user", strPtr(conn[c].clientMsg), <<>>, "", "")>>,
                 ![c].i = 0,
                 ![c].trace = Append(@, Event("begin", "", 0)),
                 ![c].pc = "Call"]
          /\ out' = out
    /\ UNCHANGED <<storeVars, db>>

\* streamCh, err := h.client.ChatStreamWithTools(ctx, messages, tools)
CallModel(c) ==
    /\ conn[c].pc = "Call"
    /\ \/ /\ \E err \in ModelCallErrors :
                 sendError(c, "AI request failed: " \o err)
          /\ conn' = [conn EXCEPT
                 ![c].calls = @ + 1,
                 ![c].trace = Append(@, Event("call", "error", 0)),
                 ![c].pc = "Returned"]
       \/ \E stream \in Streams :
              /\ \/ stream \notin Continuing
                 \/ stream = ToolRound
                 \/ conn[c].varied < MaxVaried
              /\ conn' = [conn EXCEPT
                     ![c].streamCh = stream,
                     ![c].fullContent = "",
                     ![c].toolCalls = <<>>,
                     ![c].finishReason = "",
                     ![c].calls = @ + 1,
                     ![c].varied = IF stream \in Continuing \ {ToolRound}
                                     THEN @ + 1 ELSE @,
                     ![c].trace = Append(@, Event("call", "ok", 0)),
                     ![c].pc = "Recv"]
              /\ UNCHANGED <<out, tx>>
    /\ UNCHANGED <<storeVars, db>>

\* (mutant: the loop goes on after an error chunk)
ReceiveChunk_NoReturn(c) ==
    /\ conn[c].pc = "Recv"
    /\ conn[c].streamCh # <<>>
    /\ LET chunk == Head(conn[c].streamCh)
           next == [conn EXCEPT
                       ![c].streamCh = Tail(@),
                       ![c].fullContent = @ \o chunk.Content,
                       ![c].toolCalls =
                           IF Len(chunk.ToolCalls) > 0 THEN chunk.ToolCalls ELSE @,
                       ![c].finishReason =
                           IF chunk.FinishReason # "" THEN chunk.FinishReason ELSE @]
       IN  IF chunk.Err # Nil
           THEN /\ out' = [out EXCEPT ![c] =
                        Append(@, ServerMessage("error", "", 0,
                                                "Stream error: " \o chunk.Err))]
                /\ conn' = next
                /\ tx' = tx
           ELSE IF chunk.Content # ""
           THEN \/ /\ out' = [out EXCEPT ![c] =
                          Append(@, ServerMessage("text", chunk.Content, 0, ""))]
                   /\ conn' = next
                   /\ tx' = tx
                \/ /\ return(c)
                   /\ conn' = [conn EXCEPT
                          ![c].fullContent = @ \o chunk.Content,
                          ![c].pc = "Returned"]
           ELSE /\ conn' = next
                /\ UNCHANGED <<out, tx>>
    /\ UNCHANGED <<storeVars, db>>

\* (mutant: the text message carries the content accumulated so far)
ReceiveChunk_SendsAccumulated(c) ==
    /\ conn[c].pc = "Recv"
    /\ conn[c].streamCh # <<>>
    /\ LET chunk == Head(conn[c].streamCh)
           next == [conn EXCEPT
                       ![c].streamCh = Tail(@),
                       ![c].fullContent = @ \o chunk.Content,
                       ![c].toolCalls =
                           IF Len(chunk.ToolCalls) > 0 THEN chunk.ToolCalls ELSE @,
                       ![c].finishReason =
                           IF chunk.FinishReason # "" THEN chunk.FinishReason ELSE @]
       IN  IF chunk.Err # Nil
           THEN /\ sendError(c, "Stream error: " \o chunk.Err)
                /\ conn' = [conn EXCEPT ![c].pc = "Returned"]
           ELSE IF chunk.Content # ""
           THEN \/ /\ out' = [out EXCEPT ![c] =
                          Append(@, ServerMessage("text",
                                     conn[c].fullContent \o chunk.Content, 0, ""))]
                   /\ conn' = next
                   /\ tx' = tx
                \/ /\ return(c)
                   /\ conn' = [conn EXCEPT
                          ![c].fullContent = @ \o chunk.Content,
                          ![c].pc = "Returned"]
           ELSE /\ conn' = next
                /\ UNCHANGED <<out, tx>>
    /\ UNCHANGED <<storeVars, db>>

\* one pass of: for chunk := range streamCh
ReceiveChunk(c) ==
    /\ conn[c].pc = "Recv"
    /\ conn[c].streamCh # <<>>
    /\ LET chunk == Head(conn[c].streamCh)
           next == [conn EXCEPT
                       ![c].streamCh = Tail(@),
                       ![c].fullContent = @ \o chunk.Content,
                       ![c].toolCalls =
                           IF Len(chunk.ToolCalls) > 0 THEN chunk.ToolCalls ELSE @,
                       ![c].finishReason =
                           IF chunk.FinishReason # "" THEN chunk.FinishReason ELSE @]
       IN  IF chunk.Err # Nil
           THEN /\ sendError(c, "Stream error: " \o chunk.Err)
                /\ conn' = [conn EXCEPT ![c].pc = "Returned"]
           ELSE IF chunk.Content # ""
           THEN \/ /\ out' = [out EXCEPT ![c] =
                          Append(@, ServerMessage("text", chunk.Content, 0, ""))]
                   /\ conn' = next
                   /\ tx' = tx
                \/ /\ return(c)
                   /\ conn' = [conn EXCEPT
                          ![c].fullContent = @ \o chunk.Content,
                          ![c].pc = "Returned"]
           ELSE /\ conn' = next
                /\ UNCHANGED <<out, tx>>
    /\ UNCHANGED <<storeVars, db>>

\* (mutant: the finish reason "stop" does not end the loop)
EndOfStream_IgnoresStop(c) ==
    /\ conn[c].pc = "Recv"
    /\ conn[c].streamCh = <<>>
    /\ LET h == conn[c]
           assistantMsg ==
               Message("assistant",
                       IF h.fullContent # "" THEN strPtr(h.fullContent)
                                             ELSE NoContent,
                       h.toolCalls, "", "")
       IN  conn' = [conn EXCEPT
               ![c].messages = Append(@, assistantMsg),
               ![c].newMessages = Append(@, assistantMsg),
               ![c].toolResults = <<>>,
               ![c].started = 0,
               ![c].trace = Append(@, Event("round", h.finishReason,
                                            Len(h.toolCalls))),
               ![c].pc = IF Len(h.toolCalls) = 0 THEN "Commit" ELSE "Tools"]
    /\ UNCHANGED <<storeVars, out, tx, db>>

\* (mutant: the assistant message of each round is saved at once)
EndOfStream_SavesEarly(c) ==
    /\ conn[c].pc = "Recv"
    /\ conn[c].streamCh = <<>>
    /\ LET h == conn[c]
           assistantMsg ==
               Message("assistant",
                       IF h.fullContent # "" THEN strPtr(h.fullContent)
                                             ELSE NoContent,
                       h.toolCalls, "", "")
       IN  /\ conn' = [conn EXCEPT
                  ![c].messages = Append(@, assistantMsg),
                  ![c].newMessages = Append(@, assistantMsg),
                  ![c].toolResults = <<>>,
                  ![c].started = 0,
                  ![c].trace = Append(@, Event("round", h.finishReason,
                                               Len(h.toolCalls))),
                  ![c].pc = IF h.finishReason = "stop" \/ Len(h.toolCalls) = 0
                              THEN "Commit" ELSE "Tools"]
           /\ AddMessages(convs[h.conv].ID, <<assistantMsg>>, LockNow)
    /\ UNCHANGED <<out, tx, db>>

\* the channel is closed: the assistant message and the test that ends the loop
EndOfStream(c) ==
    /\ conn[c].pc = "Recv"
    /\ conn[c].streamCh = <<>>
    /\ LET h == conn[c]
           assistantMsg ==
               Message("assistant",
                       IF h.fullContent # "" THEN strPtr(h.fullContent)
                                             ELSE NoContent,
                       h.toolCalls, "", "")
       IN  conn' = [conn EXCEPT
               ![c].messages = Append(@, assistantMsg),
               ![c].newMessages = Append(@, assistantMsg),
               ![c].toolResults = <<>>,
               ![c].started = 0,
               ![c].trace = Append(@, Event("round", h.finishReason,
                                            Len(h.toolCalls))),
               ![c].pc = IF h.finishReason = "stop" \/ Len(h.toolCalls) = 0
                           THEN "Commit" ELSE "Tools"]
    /\ UNCHANGED <<storeVars, out, tx, db>>

\* (mutant: the calls of a round are started without waiting for each other)
ExecuteTool_Parallel(c) ==
    /\ conn[c].pc = "Tools"
    /\ conn[c].started < Len(conn[c].toolCalls)
    /\ conn' = [conn EXCEPT
           ![c].started = @ + 1,
           ![c].trace = Append(@, Event("start",
                                        conn[c].toolCalls[conn[c].started + 1].ID,
                                        0))]
    /\ UNCHANGED <<storeVars, out, tx, db>>

\* executeToolsSequential: the next call of the round is passed to
\* h.executor.Execute, once the call before it has returned
ExecuteTool(c) ==
    /\ conn[c].pc = "Tools"
    /\ conn[c].started < Len(conn[c].toolCalls)
    /\ conn[c].started = Len(conn[c].toolResults)
    /\ conn' = [conn EXCEPT
           ![c].started = @ + 1,
           ![c].trace = Append(@, Event("start",
                                        conn[c].toolCalls[conn[c].started + 1].ID,
                                        0))]
    /\ UNCHANGED <<storeVars, out, tx, db>>

\* executeToolsSequential: Execute returns, and its result is stored
ToolReturns(c) ==
    /\ conn[c].pc = "Tools"
    /\ Len(conn[c].toolResults) < conn[c].started
    /\ \E outcome \in TurnOutcomes :
          LET call == conn[c].toolCalls[Len(conn[c].toolResults) + 1]
              r == Execute(call.Name, call.Arguments, outcome)
              content == IF r.err # Nil THEN ErrorJSON(r.err) ELSE r.content
          IN  /\ outcome # "ok" =>
                     /\ r.ran
                     /\ conn[c].varied < MaxVaried \/ Len(conn[c].toolCalls) > 1
              /\ conn' = [conn EXCEPT
                     ![c].toolResults =
                         Append(@, [id |-> call.ID, name |-> call.Name,
                                    content |-> content]),
                     ![c].varied = IF outcome # "ok" /\ Len(conn[c].toolCalls) = 1
                                     THEN @ + 1 ELSE @,
                     ![c].trace = Append(@, Event("finish", call.ID, 0))]
              /\ db' = [db EXCEPT ![c] = IF r.ran THEN Append(@, call.ID) ELSE @]
    /\ UNCHANGED <<storeVars, out, tx>>

\* (mutant: the loop has no bound)
AddToolResults_Unbounded(c) ==
    /\ conn[c].pc = "Tools"
    /\ Len(conn[c].toolResults) = Len(conn[c].toolCalls)
    /\ LET h == conn[c]
           toolMsgs == [k \in 1..Len(h.toolResults) |->
                           Message("tool", strPtr(Last(h.toolResults).content),
                                   <<>>, h.toolResults[k].id,
                                   h.toolResults[k].name)]
       IN  conn' = [conn EXCEPT
               ![c].messages = @ \o toolMsgs,
               ![c].newMessages = @ \o toolMsgs,
               ![c].i = @ + 1,
               ![c].pc = "Call"]
    /\ UNCHANGED <<storeVars, out, tx, db>>

\* (mutant: running out of rounds is reported as an error)
AddToolResults_ErrorWhenExhausted(c) ==
    /\ conn[c].pc = "Tools"
    /\ Len(conn[c].toolResults) = Len(conn[c].toolCalls)
    /\ LET h == conn[c]
           toolMsgs == [k \in 1..Len(h.toolResults) |->
                           Message("tool", strPtr(Last(h.toolResults).content),
                                   <<>>, h.toolResults[k].id,
                                   h.toolResults[k].name)]
       IN  /\ conn' = [conn EXCEPT
                  ![c].messages = @ \o toolMsgs,
                  ![c].newMessages = @ \o toolMsgs,
                  ![c].i = @ + 1,
                  ![c].pc = IF h.i + 1 < maxIterations THEN "Call"
                                                       ELSE "Returned"]
           /\ IF h.i + 1 < maxIterations
              THEN UNCHANGED <<out, tx>>
              ELSE sendError(c, "Too many tool calls")
    /\ UNCHANGED <<storeVars, db>>

\* (mutant: the tool messages do not carry the id of their call)
AddToolResults_LosesID(c) ==
    /\ conn[c].pc = "Tools"
    /\ Len(conn[c].toolResults) = Len(conn[c].toolCalls)
    /\ LET h == conn[c]
           toolMsgs == [k \in 1..Len(h.toolResults) |->
                           Message("tool", strPtr(Last(h.toolResults).content),
                                   <<>>, "",
                                   h.toolResults[k].name)]
       IN  conn' = [conn EXCEPT
               ![c].messages = @ \o toolMsgs,
               ![c].newMessages = @ \o toolMsgs,
               ![c].i = @ + 1,
               ![c].pc = IF h.i + 1 < maxIterations THEN "Call" ELSE "Commit"]
    /\ UNCHANGED <<storeVars, out, tx, db>>

\* (mutant: the tool messages are appended last result first)
AddToolResults_Reversed(c) ==
    /\ conn[c].pc = "Tools"
    /\ Len(conn[c].toolResults) = Len(conn[c].toolCalls)
    /\ LET h == conn[c]
           n == Len(h.toolResults)
           toolMsgs == [k \in 1..n |->
                           Message("tool", strPtr(h.toolResults[1].content),
                                   <<>>, h.toolResults[n + 1 - k].id,
                                   h.toolResults[n + 1 - k].name)]
       IN  conn' = [conn EXCEPT
               ![c].messages = @ \o toolMsgs,
               ![c].newMessages = @ \o toolMsgs,
               ![c].i = @ + 1,
               ![c].pc = IF h.i + 1 < maxIterations THEN "Call" ELSE "Commit"]
    /\ UNCHANGED <<storeVars, out, tx, db>>

\* the tool results are added to the history; the loop's i++ and test.
\* Content is &tr.content, the address of the field of the loop variable: with
\* the language version of go.mod (go 1.17) the loop has one variable, so the
\* tool messages of a round share one string, which holds the content of
\* the last result once the loop has ended
AddToolResults(c) ==
    /\ conn[c].pc = "Tools"
    /\ Len(conn[c].toolResults) = Len(conn[c].toolCalls)
    /\ LET h == conn[c]
           toolMsgs == [k \in 1..Len(h.toolResults) |->
                           Message("tool", strPtr(Last(h.toolResults).content),
                                   <<>>, h.toolResults[k].id,
                                   h.toolResults[k].name)]
       IN  conn' = [conn EXCEPT
               ![c].messages = @ \o toolMsgs,
               ![c].newMessages = @ \o toolMsgs,
               ![c].i = @ + 1,
               ![c].pc = IF h.i + 1 < maxIterations THEN "Call" ELSE "Commit"]
    /\ UNCHANGED <<storeVars, out, tx, db>>

\* (mutant: after the commit the conversation is not saved)
Commit_SkipsSave(c) ==
    /\ conn[c].pc = "Commit"
    /\ \/ /\ out' = [out EXCEPT ![c] =
                 Append(@, ServerMessage("error", "", 0, "Failed to save changes"))]
          /\ tx' = [tx EXCEPT ![c] = "failed"]
          /\ conn' = [conn EXCEPT
                 ![c].trace = Append(@, Event("commit", "error", 0)),
                 ![c].pc = "Returned"]
       \/ /\ tx' = [tx EXCEPT ![c] = "committed"]
          /\ conn' = [conn EXCEPT
                 ![c].trace = Append(@, Event("commit", "ok", 0)),
                 ![c].pc = "Done"]
          /\ out' = out
    /\ UNCHANGED <<storeVars, db>>

\* (mutant: the handler goes on after the error of a failed commit)
Commit_NoReturn(c) ==
    /\ conn[c].pc = "Commit"
    /\ \/ /\ out' = [out EXCEPT ![c] =
                 Append(@, ServerMessage("error", "", 0, "Failed to save changes"))]
          /\ tx' = [tx EXCEPT ![c] = "failed"]
          /\ conn' = [conn EXCEPT
                 ![c].trace = Append(@, Event("commit", "error", 0)),
                 ![c].pc = "Save"]
       \/ /\ tx' = [tx EXCEPT ![c] = "committed"]
          /\ conn' = [conn EXCEPT
                 ![c].trace = Append(@, Event("commit", "ok", 0)),
                 ![c].pc = "Save"]
          /\ out' = out
    /\ UNCHANGED <<storeVars, db>>

\* tx.Commit()
Commit(c) ==
    /\ conn[c].pc = "Commit"
    /\ \/ /\ out' = [out EXCEPT ![c] =
                 Append(@, ServerMessage("error", "", 0, "Failed to save changes"))]
          /\ tx' = [tx EXCEPT ![c] = "failed"]
          /\ conn' = [conn EXCEPT
                 ![c].trace = Append(@, Event("commit", "error", 0)),
                 ![c].pc = "Returned"]
       \/ /\ tx' = [tx EXCEPT ![c] = "committed"]
          /\ conn' = [conn EXCEPT
                 ![c].trace = Append(@, Event("commit", "ok", 0)),
                 ![c].pc = "Save"]
          /\ out' = out
    /\ UNCHANGED <<storeVars, db>>

\* h.store.AddMessages(conv.ID, newMessages); an error is only logged
SaveConversation(c) ==
    /\ conn[c].pc = "Save"
    /\ \E now \in TimeLens :
           AddMessages(convs[conn[c].conv].ID, conn[c].newMessages, now)
    /\ conn' = [conn EXCEPT
           ![c].trace = Append(@, Event("append", "", 0)),
           ![c].pc = "Done"]
    /\ UNCHANGED <<out, tx, db>>

\* (mutant: the done message carries the id the client sent)
SendDone_EchoesRequest(c) ==
    /\ conn[c].pc = "Done"
    /\ out' = [out EXCEPT ![c] =
           Append(@, ServerMessage("done", "", conn[c].conversationID, ""))]
    /\ conn' = [conn EXCEPT
           ![c].trace = Append(@, Event("done", "", 0)),
           ![c].pc = "Returned"]
    /\ UNCHANGED <<storeVars, tx, db>>

\* the done message, and the return
SendDone(c) ==
    /\ conn[c].pc = "Done"
    /\ out' = [out EXCEPT ![c] =
           Append(@, ServerMessage("done", "", convs[conn[c].conv].ID, ""))]
    /\ conn' = [conn EXCEPT
           ![c].trace = Append(@, Event("done", "", 0)),
           ![c].pc = "Returned"]
    /\ UNCHANGED <<storeVars, tx, db>>

(***************************************************************************)
(* The handler specification: connections served by one store             *)
(***************************************************************************)
\* DefaultCacheMaxBytes: the configured default of the cache size
DefaultCacheMaxBytes == 10485760

\* the store when the connections arrive: an earlier turn has left one
\* conversation in it
StoredConversation ==
    [ID |-> 1,
     Messages |-> <<Message("user", strPtr("hi"), <<>>, "", ""),
                    Message("assistant", strPtr("a"), <<>>, "", "")>>,
     CreatedAt |-> 20, UpdatedAt |-> 20]

StoreAfterOneTurn ==
    /\ maxBytes \in {300, DefaultCacheMaxBytes}
    /\ convs = <<StoredConversation>>
    /\ cache = <<[id |-> 1, conv |-> 1,
                  bytes |-> estimateBytes(StoredConversation)]>>
    /\ curBytes = estimateBytes(StoredConversation)
    /\ lru = <<1>>
    /\ ret = [op |-> "AddMessages", id |-> 1, hit |-> TRUE,
              conv |-> NilConv, err |-> Nil]
    /\ useOrder = <<1>>
    /\ touched = {1}

Init ==
    /\ StoreAfterOneTurn
    /\ conn = [c \in Conns |-> Locals]
    /\ out = [c \in Conns |-> <<>>]
    /\ tx = [c \in Conns |-> "none"]
    /\ db = [c \in Conns |-> <<>>]
    /\ NoStream
    /\ NoThreads

Next ==
    \E c \in Conns :
        \/ Upgrade(c) /\ UNCHANGED <<streamVars, lockVars>>
        \/ LoadConversation(c) /\ UNCHANGED <<streamVars, lockVars>>
        \/ CreateConversation(c) /\ UNCHANGED <<streamVars, lockVars>>
        \/ ReadMessage(c) /\ UNCHANGED <<streamVars, lockVars>>
        \/ BuildMessages(c) /\ UNCHANGED <<streamVars, lockVars>>
        \/ Begin(c) /\ UNCHANGED <<streamVars, lockVars>>
        \/ CallModel(c) /\ UNCHANGED <<streamVars, lockVars>>
        \/ ReceiveChunk(c) /\ UNCHANGED <<streamVars, lockVars>>
        \/ EndOfStream(c) /\ UNCHANGED <<streamVars, lockVars>>
        \/ ExecuteTool(c) /\ UNCHANGED <<streamVars, lockVars>>
        \/ ToolReturns(c) /\ UNCHANGED <<streamVars, lockVars>>
        \/ AddToolResults(c) /\ UNCHANGED <<streamVars, lockVars>>
        \/ Commit(c) /\ UNCHANGED <<streamVars, lockVars>>
        \/ SaveConversation(c) /\ UNCHANGED <<streamVars, lockVars>>
        \/ SendDone(c) /\ UNCHANGED <<streamVars, lockVars>>

Spec == Init /\ [][Next]_vars

(***************************************************************************)
(* The concurrent specification: two connections served by one store      *)
(***************************************************************************)
\* the connections of the concurrent specification
ConcConns == {1, 2}

\* model calls of one turn of the concurrent specification
MaxTurnCalls == 2

\* the turns of the concurrent specification are the turns that reach the
\* store: a message is read, the model calls answer with a round of one tool
\* call or with a stream that ends the loop, the last call allowed with the
\* latter, nothing fails, and time.Now() always formats to the same length
PlainTurn(c) ==
    /\ conn'[c].varied = 0
    /\ conn[c].pc = "Read" => conn'[c].clientMsg # ""
    /\ conn[c].pc = "Call"
          => /\ conn'[c].streamCh # BrokenStream
             /\ conn'[c].calls = MaxTurnCalls
                   => conn'[c].streamCh \notin Continuing
    /\ conn'[c].pc = "Returned" => conn[c].pc = "Done"
    /\ Len(out'[c]) > Len(out[c]) => out'[c][Len(out'[c])].Type # "error"
    /\ \A k \in 1..Len(convs') :
           convs'[k].CreatedAt \in {0, LockNow} /\ convs'[k].UpdatedAt \in {0, LockNow}

InitConc ==
    /\ StoreAfterOneTurn
    /\ conn = [c \in ConcConns |-> Locals]
    /\ out = [c \in ConcConns |-> <<>>]
    /\ tx = [c \in ConcConns |-> "none"]
    /\ db = [c \in ConcConns |-> <<>>]
    /\ NoStream
    /\ NoThreads

\* the step A of the connection c in the concurrent specification: the
\* goroutines of the connections run independently, so every step of one
\* can come between any two steps of the other
ConcStep(c, A) ==
    /\ A
    /\ PlainTurn(c)
    /\ UNCHANGED <<streamVars, lockVars>>

NextConc ==
    \E c \in ConcConns :
        \/ ConcStep(c, Upgrade(c))
        \/ ConcStep(c, LoadConversation(c))
        \/ ConcStep(c, CreateConversation(c))
        \/ ConcStep(c, ReadMessage(c))
        \/ ConcStep(c, StartBuild(c))
        \/ ConcStep(c, FinishBuild(c))
        \/ ConcStep(c, Begin(c))
        \/ ConcStep(c, CallModel(c))
        \/ ConcStep(c, ReceiveChunk(c))
        \/ ConcStep(c, EndOfStream(c))
        \/ ConcStep(c, ExecuteTool(c))
        \/ ConcStep(c, ToolReturns(c))
        \/ ConcStep(c, AddToolResults(c))
        \/ ConcStep(c, Commit(c))
        \/ ConcStep(c, SaveConversation(c))
        \/ ConcStep(c, SendDone(c))

SpecConc == InitConc /\ [][NextConc]_vars

(***************************************************************************)
(* Properties of the store                                                 *)
(***************************************************************************)
RECURSIVE SumBytes(_, _)
SumBytes(c, ids) ==
    IF ids = {} THEN 0
    ELSE LET k == CHOOSE x \in ids : TRUE
         IN  c[k].bytes + SumBytes(c, ids \ {k})

Range(q) == {q[i] : i \in 1..Len(q)}

Pos(q, x) == CHOOSE i \in 1..Len(q) : q[i] = x

Max(S) == CHOOSE x \in S : \A y \in S : y <= x

\* C1: in every reachable state of the store the running total curBytes is
\* the sum of the bytes fields of the entries in the cache, and the entries
\* of the cache are exactly the elements of the recency list, each once.
C1_ByteAccounting ==
    /\ curBytes = SumBytes(cache, DOMAIN cache)
    /\ Range(lru) = DOMAIN cache
    /\ Len(lru) = Cardinality(DOMAIN cache)

\* C1 witness: an entry grew by an append and another entry was evicted
C1_Witness ==
    /\ Cardinality(DOMAIN cache) = 2
    /\ Len(convs) > 2
    /\ \E k \in DOMAIN cache : Len(convs[k].Messages) > 0
    /\ curBytes > 0

\* C2: after every call the total is within the budget, unless the store
\* holds exactly one entry whose own size exceeds the budget.
C2_BudgetBound ==
    \/ curBytes <= maxBytes
    \/ /\ Cardinality(DOMAIN cache) = 1
       /\ \A k \in DOMAIN cache : cache[k].bytes > maxBytes

\* C2 witness: a Create evicted an older entry to fit the new one
C2_Witness ==
    /\ ret.op = "Create"
    /\ Cardinality(DOMAIN cache) = 2
    /\ Len(convs) = 3
    /\ curBytes <= maxBytes
    /\ curBytes + cache[ret.id].bytes > maxBytes

\* C2, the excepted case: a sole entry larger than the budget
C2_SoleOversizedEntry ==
    /\ Cardinality(DOMAIN cache) = 1
    /\ curBytes > maxBytes

\* C3 (as claimed): after AddMessages on an id present in the store, the id
\* is still present, also when its new size alone exceeds the budget.
C3_MutatedEntryRetained ==
    (ret.op = "AddMessages" /\ ret.hit) => ret.id \in DOMAIN cache

\* C4: a Get or AddMessages that finds its id, and leaves it in the store,
\* makes it the most-recently-used entry and keeps the relative order of
\* all other surviving entries.
C4_Promotion ==
    [][\A id \in 1..MaxConvs :
          (/\ id \in DOMAIN cache
           /\ id \in DOMAIN cache'
           /\ ret'.op \in {"Get", "AddMessages"}
           /\ ret'.id = id
           /\ ret'.hit)
          => /\ lru'[1] = id
             /\ Remove(lru', id) =
                    SelectSeq(Remove(lru, id), LAMBDA x : x \in DOMAIN cache')
      ]_vars

\* C4 witness: an older conversation was promoted over a newer one
C4_Witness ==
    /\ ret.op \in {"Get", "AddMessages"}
    /\ ret.hit
    /\ Len(lru) >= 3
    /\ lru[1] = ret.id
    /\ lru[1] < lru[2]

\* C5: an entry is evicted only if every entry that stays was used (created,
\* or hit by Get or AddMessages) more recently than it.
C5_EvictionOrder ==
    [][\A e \in DOMAIN cache \ DOMAIN cache' : \A k \in DOMAIN cache' :
          Pos(useOrder', k) < Pos(useOrder', e)]_vars

\* C5 witness: a conversation was evicted while an older one, hit since,
\* stayed
C5_Witness ==
    \E e \in 1..Len(convs) \ DOMAIN cache : \E k \in DOMAIN cache :
        k < e /\ k \in touched

\* C6: when no entry of the store was hit since its creation, Create evicts
\* in creation order and only as many entries as the new one needs to fit;
\* when the budget holds two but not three conversations of the new one's
\* size (budget 1000, size 400), the third Create evicts exactly the first.
C6_CreateEvictsInCreationOrder ==
    [][(/\ ret'.op = "Create"
        /\ Len(convs') = Len(convs) + 1
        /\ touched \cap DOMAIN cache = {})
       => LET new == ret'.id
              evicted == DOMAIN cache \ DOMAIN cache'
              kept == DOMAIN cache \cap DOMAIN cache'
              size == cache'[new].bytes
          IN  /\ DOMAIN cache' = kept \cup {new}
              /\ \A e \in evicted : \A k \in kept : e < k
              /\ evicted # {} =>
                     SumBytes(cache, kept \cup {Max(evicted)}) + size > maxBytes
              /\ curBytes' <= maxBytes \/ kept = {}
              /\ (/\ DOMAIN cache = {1, 2}
                  /\ cache[1].bytes = size
                  /\ cache[2].bytes = size
                  /\ 2 * size <= maxBytes
                  /\ maxBytes < 3 * size)
                 => /\ DOMAIN cache' = {2, 3}
                    /\ lru' = <<3, 2>>
                    /\ curBytes' = 2 * size
      ]_vars

\* C6 witness: A, B, C were created, nothing else was called, and the store
\* holds B and C
C6_Witness ==
    /\ ret.op = "Create"
    /\ Len(convs) = 3
    /\ touched = {}
    /\ lru = <<3, 2>>
    /\ cache[2].bytes = cache[3].bytes
    /\ curBytes = 2 * cache[3].bytes

\* C7: a Get on an id that is not in the store returns no conversation and
\* no error.
C7_GetAbsent ==
    (ret.op = "Get" /\ ret.id \notin DOMAIN cache)
    => (~ret.hit /\ ret.conv = NilConv /\ ret.err = Nil)

\* C7 witness: a Get on an evicted id has returned
C7_Witness ==
    /\ ret.op = "Get"
    /\ ret.id \in 1..Len(convs)
    /\ ret.id \notin DOMAIN cache
    /\ ret.conv = NilConv

\* C8: no call of Get, Create or AddMessages returns an error, and no
\* connection is ever sent the error of a failed load or create.
C8_Infallible ==
    /\ ret.err = Nil
    /\ \A c \in DOMAIN out : \A k \in 1..Len(out[c]) :
           out[c][k].Error \notin {"Failed to load conversation",
                                   "Failed to create conversation"}

\* C8 witness: AddMessages on an id that was never created has returned
C8_Witness ==
    /\ ret.op = "AddMessages"
    /\ ret.id > Len(convs)
    /\ ret.err = Nil


(***************************************************************************)
(* Properties of the handler                                               *)
(***************************************************************************)
IsSuffix(q, r) ==
    /\ Len(q) <= Len(r)
    /\ SubSeq(r, Len(r) - Len(q) + 1, Len(r)) = q

\* the index of the last assistant message of a message list
LastAssistant(msgs) ==
    Max({k \in 1..Len(msgs) : msgs[k].Role = "assistant"})

\* the tool calls of the last assistant message are answered, one tool
\* message each and in their order, by the messages that end the list
LastRoundAnswered(msgs) ==
    LET a == LastAssistant(msgs)
        calls == msgs[a].ToolCalls
    IN  /\ Len(calls) > 0
        /\ Len(msgs) = a + Len(calls)
        /\ \A k \in 1..Len(calls) :
               /\ msgs[a + k].Role = "tool"
               /\ msgs[a + k].ToolCallID = calls[k].ID
               /\ msgs[a + k].Name = calls[k].Name

\* C9: a turn makes at most maxIterations (10) calls of ChatStreamWithTools;
\* after the 10th round the handler is past the loop, whatever the rounds
\* returned.
C9_LoopBound ==
    \A c \in DOMAIN conn :
        /\ conn[c].calls <= maxIterations
        /\ conn[c].i <= maxIterations
        /\ conn[c].i = maxIterations =>
               conn[c].pc \in {"Commit", "Save", "Done", "Returned"}

\* C9 witness: ten rounds have asked for tool calls and the loop is left
C9_Witness ==
    \E c \in DOMAIN conn :
        /\ conn[c].calls = maxIterations
        /\ conn[c].i = maxIterations
        /\ conn[c].pc = "Commit"

\* C10: when all ten rounds ended with tool calls, the loop is left after the
\* tenth round with its tool calls executed and answered, and the turn ends as
\* any other: the commit, the append of the turn's messages to the
\* conversation, the done message with the conversation's id.  Nothing but
\* text and done is sent; the one error that can still follow is that of a
\* commit the database refuses.
C10_ExhaustionCompletes ==
    \A c \in DOMAIN conn :
        conn[c].i = maxIterations =>
            LET h == conn[c]
            IN  /\ h.calls = maxIterations
                /\ h.pc \in {"Commit", "Save", "Done", "Returned"}
                /\ LastRoundAnswered(h.newMessages)
                /\ Len(db[c]) >= maxIterations
                /\ \A k \in 1..Len(out[c]) :
                       \/ out[c][k].Type = "text"
                       \/ out[c][k].Type = "done" /\ k = Len(out[c])
                       \/ /\ out[c][k].Type = "error"
                          /\ out[c][k].Error = "Failed to save changes"
                          /\ tx[c] = "failed"
                /\ h.pc = "Commit" => tx[c] = "open"
                /\ h.pc \in {"Save", "Done"} => tx[c] = "committed"
                /\ h.pc = "Done" =>
                       /\ ret.op = "AddMessages" /\ ret.id = h.conv
                       /\ IsSuffix(h.newMessages, convs[h.conv].Messages)
                /\ h.pc = "Returned" =>
                       \/ /\ tx[c] = "failed"
                          /\ Last(out[c]).Type = "error"
                       \/ /\ tx[c] = "committed"
                          /\ ret.op = "AddMessages" /\ ret.id = h.conv
                          /\ Last(out[c]) = ServerMessage("done", "", h.conv, "")
                          /\ \A k \in 1..Len(out[c]) : out[c][k].Type # "error"

\* C10 witness: a turn of ten tool-call rounds has ended with done
C10_Witness ==
    \E c \in DOMAIN conn :
        /\ conn[c].i = maxIterations
        /\ conn[c].pc = "Returned"
        /\ tx[c] = "committed"
        /\ Last(out[c]).Type = "done"

(***************************************************************************)
(* Properties of a turn, stated over the history of the connection        *)
(***************************************************************************)
\* the entries of a history that record the step e
Events(trace, e) == SelectSeq(trace, LAMBDA x : x.e = e)

\* the rounds a connection has completed
Rounds(c) == Events(conn[c].trace, "round")

\* a round after which the loop goes on: tool calls, and no "stop"
Continues(round) == round.a # "stop" /\ round.n > 0

\* C11: the loop goes on after a round exactly when the round has tool calls
\* and its finish reason is not "stop"; so every round before the last one
\* went on, the loop is left only after a round that does not (or after the
\* tenth), and the model calls of the turn are as many as its rounds: k
\* rounds with tool calls followed by one without make k + 1 calls.
C11_LoopExit ==
    \A c \in DOMAIN conn :
        LET h == conn[c]
            rs == Rounds(c)
            calls == Len(Events(h.trace, "call"))
            left == h.pc \in {"Commit", "Save", "Done"}
                    \/ Len(Events(h.trace, "commit")) > 0
        IN  /\ calls = h.calls
            /\ Len(rs) <= calls /\ calls <= Len(rs) + 1
            /\ \A j \in 1..(Len(rs) - 1) : Continues(rs[j])
            /\ h.pc \in {"Call", "Tools"} =>
                   /\ calls = Len(rs)
                   /\ \A j \in 1..Len(rs) : Continues(rs[j])
            /\ left =>
                   /\ calls = Len(rs)
                   /\ Len(rs) >= 1
                   /\ ~Continues(Last(rs)) \/ Len(rs) = maxIterations

\* C11 witness: the get_stats turn: a round with the one tool call, its
\* result, a round with the answer and "stop"; two model calls, then done
C11_Witness ==
    \E c \in DOMAIN conn :
        /\ Rounds(c) = <<Event("round", "tool_calls", 1), Event("round", "stop", 0)>>
        /\ conn[c].calls = 2
        /\ conn[c].pc = "Returned"
        /\ Last(out[c]).Type = "done"
        /\ conn[c].newMessages[2].ToolCalls = <<statsCall>>
        /\ conn[c].newMessages[3].Content = strPtr(OkJSON)

\* C12: a connection whose client message was the empty string has been sent
\* the error "Message cannot be empty" and nothing else, and has ended; no
\* transaction was opened, no model call was made and no tool was executed.
C12_EmptyMessageRejected ==
    \A c \in DOMAIN conn :
        LET h == conn[c]
            reads == Events(h.trace, "read")
        IN  (Len(reads) > 0 /\ reads[1].a = "") =>
                /\ h.pc = "Returned"
                /\ out[c] = <<ServerMessage("error", "", 0,
                                            "Message cannot be empty")>>
                /\ tx[c] = "none"
                /\ h.calls = 0
                /\ db[c] = <<>>
                /\ \A k \in 1..Len(h.trace) :
                       h.trace[k].e \notin {"begin", "call", "start", "commit"}

\* C12 witness: the empty message was read on a connection that asked for
\* the stored conversation, and the error was sent
C12_Witness ==
    \E c \in DOMAIN conn :
        /\ conn[c].trace = <<Event("read", "", 0)>>
        /\ conn[c].conv = 1
        /\ Len(out[c]) = 1
        /\ out[c][1].Type = "error"

\* C13: a turn commits at most once; the commit comes after every model
\* call, round and tool execution of the turn, when the loop has ended (its
\* last round stops, or is the tenth), every stream was read to its end and
\* every tool has returned; a connection that was sent an error has no
\* committed transaction.
C13_CommitPlacement ==
    \A c \in DOMAIN conn :
        LET t == conn[c].trace
            rs == Rounds(c)
            oks == {k \in 1..Len(t) : t[k] = Event("commit", "ok", 0)}
        IN  /\ Len(Events(t, "commit")) <= 1
            /\ tx[c] = "committed" <=> oks # {}
            /\ \A k \in oks :
                   /\ \A j \in 1..Len(t) :
                          t[j].e \in {"call", "round", "start", "finish"} => j < k
                   /\ Len(rs) >= 1
                   /\ ~Continues(Last(rs)) \/ Len(rs) = maxIterations
                   /\ Len(Events(t, "call")) = Len(rs)
                   /\ Len(Events(t, "start")) = Len(Events(t, "finish"))
                   /\ \A m \in 1..Len(out[c]) : out[c][m].Type # "error"
            /\ (\E m \in 1..Len(out[c]) : out[c][m].Type = "error")
                   => tx[c] # "committed"

\* C13 witness: a turn of three model calls with tool executions has
\* committed and ended
C13_Witness ==
    \E c \in DOMAIN conn :
        /\ tx[c] = "committed"
        /\ conn[c].pc = "Returned"
        /\ conn[c].calls = 3
        /\ Len(Events(conn[c].trace, "finish")) >= 2

\* C14: a handler that has returned after it opened a transaction has
\* committed the transaction or rolled it back, whatever the path by which it
\* returned: no transaction is left open or in any other state
C14_TransactionResolved ==
    \A c \in Conns :
        conn[c].pc = "Returned" => tx[c] \in {"none", "committed", "rolledback"}

\* the errors a stream can deliver in a chunk
StreamErrors == {"failed to read stream"}

\* the error messages of a failed model call and of an error chunk
AbortErrors ==
    {"AI request failed: " \o e : e \in ModelCallErrors}
    \cup {"Stream error: " \o e : e \in StreamErrors}

\* C15: a model call that fails, and an error chunk, make the handler send
\* an error; a connection that was sent one of these errors has ended with
\* that message, its transaction rolled back, no commit tried and no done
\* sent, and the model call that failed is the last step of its history: no
\* round, model call or tool execution follows it.
C15_ErrorAborts ==
    \A c \in DOMAIN conn :
        LET h == conn[c]
            t == h.trace
        IN  /\ (Len(t) > 0 /\ Last(t) = Event("call", "error", 0)) =>
                   /\ Len(out[c]) > 0
                   /\ \E e \in ModelCallErrors :
                          Last(out[c]).Error = "AI request failed: " \o e
            /\ (/\ h.pc = "Returned"
                /\ h.streamCh # <<>>
                /\ Head(h.streamCh).Err # Nil) =>
                   /\ Len(out[c]) > 0
                   /\ Last(out[c]).Error = "Stream error: " \o Head(h.streamCh).Err
            /\ \A m \in 1..Len(out[c]) :
                   out[c][m].Error \in AbortErrors =>
                       /\ m = Len(out[c])
                       /\ out[c][m].Type = "error"
                       /\ h.pc = "Returned"
                       /\ tx[c] = "rolledback"
                       /\ Last(t).e = "call"
                       /\ Len(Events(t, "commit")) = 0
                       /\ \A k \in 1..Len(out[c]) : out[c][k].Type # "done"

\* C15 witness: the second model call of a turn failed, after a tool was
\* executed
C15_Witness ==
    \E c \in DOMAIN conn :
        /\ conn[c].calls = 2
        /\ Last(conn[c].trace) = Event("call", "error", 0)
        /\ Len(db[c]) > 0
        /\ Last(out[c]).Error = "AI request failed: API error (status 500)"
        /\ tx[c] = "rolledback"

\* C16: the tool executions of a turn do not overlap: a call passed to
\* Execute returns before anything else happens in the turn, so at most one
\* execution is in progress; and the calls of a round are executed in the
\* order of the round's tool-call list.
C16_SequentialTools ==
    \A c \in DOMAIN conn :
        LET h == conn[c]
            t == h.trace
            starts == Events(t, "start")
            finishes == Events(t, "finish")
        IN  /\ \A k \in 1..Len(t) :
                   t[k].e = "start" =>
                       \/ k = Len(t)
                       \/ t[k + 1] = Event("finish", t[k].a, 0)
            /\ Len(starts) - Len(finishes) \in {0, 1}
            /\ h.pc = "Tools" =>
                   /\ h.started - Len(h.toolResults) \in {0, 1}
                   /\ h.started <= Len(starts)
                   /\ \A k \in 1..h.started :
                          starts[Len(starts) - h.started + k].a = h.toolCalls[k].ID
                   /\ \A k \in 1..Len(h.toolResults) :
                          h.toolResults[k].id = h.toolCalls[k].ID

\* C16 witness: the two tool calls of a round were executed, the first
\* before the second
C16_Witness ==
    \E c \in DOMAIN conn :
        /\ conn[c].pc = "Tools"
        /\ conn[c].toolCalls = <<statsCall, bogusCall>>
        /\ Len(conn[c].toolResults) = 2
        /\ SubSeq(conn[c].trace, Len(conn[c].trace) - 3, Len(conn[c].trace)) =
               <<Event("start", "t1", 0), Event("finish", "t1", 0),
                 Event("start", "t2", 0), Event("finish", "t2", 0)>>

\* C17: the commit, the append to the store and the done message happen at
\* most once each and in this order, with nothing of the turn between them:
\* the append follows a successful commit, done follows the append; the
\* done message is the last message sent, carries the conversation's id,
\* and is sent only when the transaction is committed.
C17_CompletionOrder ==
    \A c \in DOMAIN conn :
        LET h == conn[c]
            t == h.trace
            n == Len(t)
            dones == {m \in 1..Len(out[c]) : out[c][m].Type = "done"}
        IN  /\ Len(Events(t, "commit")) <= 1
            /\ Len(Events(t, "append")) <= 1
            /\ Len(Events(t, "done")) <= 1
            /\ \A k \in 1..n :
                   /\ t[k].e = "append" =>
                          (k > 1 /\ t[k - 1] = Event("commit", "ok", 0))
                   /\ t[k].e = "done" =>
                          (k > 1 /\ t[k - 1].e = "append" /\ k = n)
            /\ (dones # {}) <=> (Len(Events(t, "done")) = 1)
            /\ \A m \in dones :
                   /\ m = Len(out[c])
                   /\ out[c][m] = ServerMessage("done", "", h.conv, "")
                   /\ tx[c] = "committed"
                   /\ ret.op = "AddMessages" /\ ret.id = h.conv

\* C17 witness: a turn on a conversation created for it has committed,
\* appended and sent done
C17_Witness ==
    \E c \in DOMAIN conn :
        /\ conn[c].pc = "Returned"
        /\ conn[c].conv = 2
        /\ Len(conn[c].trace) >= 3
        /\ SubSeq(conn[c].trace, Len(conn[c].trace) - 2, Len(conn[c].trace)) =
               <<Event("commit", "ok", 0), Event("append", "", 0),
                 Event("done", "", 0)>>
        /\ Last(out[c]) = ServerMessage("done", "", 2, "")

(***************************************************************************)
(* Properties of the stream producer                                       *)
(***************************************************************************)
\* the fragments of a sequence of deltas, in arrival order
RECURSIVE FragmentsOf(_)
FragmentsOf(ds) ==
    IF ds = <<>> THEN <<>> ELSE Head(ds).ToolCalls \o FragmentsOf(Tail(ds))

\* the fragments that arrived with the index i, in arrival order
AtIndex(i) == SelectSeq(FragmentsOf(scanned), LAMBDA f : f.Index = i)

\* the arguments pieces of a sequence of fragments, joined
RECURSIVE JoinArguments(_)
JoinArguments(fs) ==
    IF fs = <<>> THEN "" ELSE Head(fs).Arguments \o JoinArguments(Tail(fs))

\* the entries of the map m at the indexes S, by ascending index
RECURSIVE Ascending(_, _)
Ascending(m, S) ==
    IF S = {} THEN <<>>
    ELSE LET i == CHOOSE x \in S : \A y \in S : x <= y
         IN  <<m[i]>> \o Ascending(m, S \ {i})

\* C18: the arguments accumulated for an index are the arguments pieces of
\* the fragments that arrived with that index, joined in arrival order,
\* whatever arrived in between; and the tool calls a chunk carries are the
\* accumulated ones.
C18_ArgumentsRoundTrip ==
    /\ DOMAIN toolCallsMap = {f.Index : f \in Range(FragmentsOf(scanned))}
    /\ \A i \in DOMAIN toolCallsMap :
           toolCallsMap[i].Arguments = JoinArguments(AtIndex(i))
    /\ (scanned # <<>> /\ Last(scanned).FinishReason = "tool_calls"
        /\ producer = "Scan") =>
           \A k \in 1..Len(Last(ch).ToolCalls) :
               \E i \in DOMAIN toolCallsMap :
                   Last(ch).ToolCalls[k] = toolCallsMap[i]

\* C18 witness: the arguments {"a":1} of index 0 arrived in two pieces, with
\* a fragment of another index in between
C18_Witness ==
    /\ Len(scanned) = 3
    /\ 0 \in DOMAIN toolCallsMap
    /\ toolCallsMap[0].Arguments = "{\"a\":1}"
    /\ Len(AtIndex(0)) = 2
    /\ Len(scanned[2].ToolCalls) = 1
    /\ scanned[2].ToolCalls[1].Index = 1

\* C19 (as claimed): the tool calls sent with the finish reason "tool_calls"
\* are the accumulated calls of all indexes seen, by ascending index.
C19_AllIndexesEmitted ==
    (scanned # <<>> /\ Last(scanned).FinishReason = "tool_calls"
     /\ producer = "Scan") =>
        Last(ch).ToolCalls = Ascending(toolCallsMap, DOMAIN toolCallsMap)

\* C20: the id, type and name accumulated for an index are those of the
\* first fragment that arrived with it; later fragments leave them alone.
C20_FirstFragmentIdentity ==
    \A i \in DOMAIN toolCallsMap :
        LET first == AtIndex(i)[1]
        IN  /\ toolCallsMap[i].ID = first.ID
            /\ toolCallsMap[i].Type = first.Type
            /\ toolCallsMap[i].Name = first.Name

\* C20 witness: index 0 got a fragment of the call t1 and then one that
\* names the call t2
C20_Witness ==
    /\ 0 \in DOMAIN toolCallsMap
    /\ toolCallsMap[0].ID = "t1"
    /\ toolCallsMap[0].Name = "get_stats"
    /\ Len(AtIndex(0)) = 2
    /\ AtIndex(0)[2].ID = "t2"
    /\ AtIndex(0)[2].Name = "get_device"

\* the texts of a sequence of deltas or chunks, in order, the empty ones left
\* out
RECURSIVE Texts(_)
Texts(xs) ==
    IF xs = <<>> THEN <<>>
    ELSE LET x == Head(xs)
             t == IF "Err" \in DOMAIN x THEN x.Content
                  ELSE IF x.Content = NoContent THEN "" ELSE x.Content[1]
         IN  (IF t = "" THEN <<>> ELSE <<t>>) \o Texts(Tail(xs))

\* C21: a chunk that carries tool calls carries the finish reason
\* "tool_calls"; the chunks sent while fragments are still arriving, before
\* that finish reason has been read, carry none
C21_ToolCallsOnlyAtCompletion ==
    /\ \A k \in 1..Len(ch) :
           Len(ch[k].ToolCalls) > 0 => ch[k].FinishReason = "tool_calls"
    /\ (\A j \in 1..Len(scanned) : scanned[j].FinishReason # "tool_calls")
           => \A k \in 1..Len(ch) : ch[k].ToolCalls = <<>>

\* a text chunk without calls went out while a call was accumulating, and
\* the calls went out with the finish reason
C21_Witness ==
    /\ Len(ch) = 2
    /\ Len(scanned) = 3
    /\ Len(scanned[1].ToolCalls) > 0
    /\ ch[1].Content = "a" /\ ch[1].ToolCalls = <<>>
    /\ ch[2].FinishReason = "tool_calls" /\ Len(ch[2].ToolCalls) > 0

\* C22: the text of every decoded delta that has one goes out as a chunk with
\* exactly that text, in the step that reads the delta and after the chunks of
\* the deltas before it, whether or not fragments are pending
C22_ContentForwarded ==
    [][\A d \in Deltas :
          (scanned' = Append(scanned, d) /\ d.Content # NoContent
             /\ d.Content[1] # "")
          => /\ Len(ch') = Len(ch) + 1
             /\ SubSeq(ch', 1, Len(ch)) = ch
             /\ ch'[Len(ch')].Content = d.Content[1]
             /\ Texts(ch') = Texts(scanned')]_vars

\* two different texts went out in the order they came, the second while a
\* fragment was pending
C22_Witness ==
    /\ Len(scanned) = 3
    /\ DOMAIN toolCallsMap # {}
    /\ Len(scanned[2].ToolCalls) > 0
    /\ Texts(scanned) = <<"a", "b">>
    /\ Texts(ch) = <<"a", "b">>

\* the places of the error chunks among the chunks sent
ErrorChunks == {k \in 1..Len(ch) : ch[k].Err # Nil}

\* C23: a request that fails in transport or with a status other than 200, a
\* line that does not decode and a read that fails each end the stream with
\* exactly one error chunk, the last chunk before the channel is closed, and
\* no chunk follows an error chunk
C23_ErrorChunkDelivered ==
    /\ Cardinality(ErrorChunks) <= 1
    /\ \A k \in ErrorChunks : k = Len(ch) /\ producer = "Closed"
    /\ (Len(lines) > 0 /\ lines[Len(lines)] = "bad") => ErrorChunks # {}
    /\ consumer.err # Nil => ErrorChunks # {} /\ producer = "Closed"

\* C24: a line without the prefix "data: " sends no chunk and leaves the
\* accumulated calls as they are; the line "data: [DONE]" sends no chunk and
\* closes the channel, and after it nothing is read or sent, whatever lines
\* follow in the body
C24_CleanTermination ==
    [][/\ (Len(lines') = Len(lines) + 1 /\ lines'[Len(lines')] = "other")
           => /\ ch' = ch
              /\ sending' = sending
              /\ toolCallsMap' = toolCallsMap
              /\ producer' = producer
       /\ (Len(lines') = Len(lines) + 1 /\ lines'[Len(lines')] = "done")
           => /\ ch' = ch
              /\ sending' = sending
              /\ producer' = "Closed"
       /\ (Len(lines) > 0 /\ lines[Len(lines)] = "done")
           => /\ ch' = ch
              /\ sending' = sending
              /\ lines' = lines
              /\ producer' = "Closed"
              /\ ErrorChunks = {}]_vars

\* a line without the prefix was passed over, then [DONE] closed the channel
\* with a line of the body left unread
C24_Witness ==
    /\ lines = <<"other", "done">>
    /\ body > 0
    /\ producer = "Closed"
    /\ ch = <<>>

\* C25: once the handler has stopped receiving from the channel, the
\* goroutine comes to its end and closes the channel: it does not stay blocked
\* in a send on the full channel
C25_ProducerTerminates ==
    consumer.gone ~> (producer = "Closed" /\ sending = <<>>)

(***************************************************************************)
(* Properties of the tool executor                                         *)
(***************************************************************************)
\* names Execute does not dispatch on
UnknownNames == {"bogus", ""}

\* C26: for a name that is not in its table Execute returns an error and no
\* result and runs no domain operation, whatever the arguments; the handler's
\* result for such a call is that error, and nothing ran under the transaction
C26_UnknownTool ==
    /\ \A name \in UnknownNames, a \in ArgumentStrings, o \in Outcomes :
           LET r == Execute(name, a, o)
           IN  r.err # Nil /\ r.content = "" /\ ~r.ran
    /\ \A c \in Conns : \A k \in 1..Len(conn[c].toolResults) :
           LET t == conn[c].toolResults[k]
           IN  t.name \notin ToolNames
                  => /\ t.content = ErrorJSON("unknown tool: " \o t.name)
                     /\ t.id \notin Range(db[c])

\* the handler has executed a call of an unknown name
C26_Witness ==
    \E c \in Conns : \E k \in 1..Len(conn[c].toolResults) :
        /\ conn[c].toolResults[k].name = "bogus"
        /\ conn[c].toolResults[k].id \notin Range(db[c])
        /\ Len(db[c]) > 0

\* the result of a domain operation that failed
DomainFailure == ErrorJSON(QueryError)

\* C27: when the domain operation fails Execute returns no error and a JSON
\* object with an "error" field; the handler stores it as the result of the
\* call, writes no error message, leaves the transaction open and goes on,
\* and the result enters the transcript as a tool message before the next
\* model call
C27_ToolFailureNotFatal ==
    [][/\ \A name \in ToolNames, a \in {""} \cup ValidArguments :
              Runs(name, a) =>
                  Execute(name, a, "fail")
                      = [content |-> DomainFailure, err |-> Nil, ran |-> TRUE]
       /\ \A c \in Conns :
              LET h == conn[c]
                  g == conn'[c]
              IN  /\ (/\ Len(g.toolResults) = Len(h.toolResults) + 1
                      /\ g.toolResults[Len(g.toolResults)].content = DomainFailure)
                         => /\ out'[c] = out[c]
                            /\ tx'[c] = "open"
                            /\ g.pc = "Tools"
                  /\ (/\ h.pc = "Tools"
                      /\ g.pc # "Tools"
                      /\ \E k \in 1..Len(h.toolResults) :
                             h.toolResults[k].content = DomainFailure)
                         => /\ out'[c] = out[c]
                            /\ tx'[c] = "open"
                            /\ g.pc \in {"Call", "Commit"}
                            /\ Len(g.newMessages)
                                   = Len(h.newMessages) + Len(h.toolResults)
                            /\ \A k \in 1..Len(h.toolResults) :
                                   g.newMessages[Len(h.newMessages) + k]
                                       = Message("tool",
                                                 strPtr(h.toolResults[k].content),
                                                 <<>>, h.toolResults[k].id,
                                                 h.toolResults[k].name)]_vars

(***************************************************************************)
(* Properties of the transcripts in the store                              *)
(***************************************************************************)
\* the transcripts of the conversations the store holds
Transcripts == {convs[cache[id].conv].Messages : id \in DOMAIN cache}

\* the nearest assistant message before the place k of msgs, or 0
AssistantBefore(msgs, k) ==
    Max({0} \cup {a \in 1..(k - 1) : msgs[a].Role = "assistant"})

\* C28: in every transcript the store holds, whatever connections have
\* appended their turns to it, the tool_call_id of every tool message is the
\* id of a tool call of an assistant message before it (of the nearest one)
C28_ToolMessagesReferToCalls ==
    \A msgs \in Transcripts : \A k \in 1..Len(msgs) :
        msgs[k].Role = "tool"
           => LET a == AssistantBefore(msgs, k)
              IN  /\ a > 0
                  /\ \E j \in 1..Len(msgs[a].ToolCalls) :
                         msgs[a].ToolCalls[j].ID = msgs[k].ToolCallID

\* both connections have appended a turn with a tool round to the same
\* conversation
C28_Witness ==
    /\ \A c \in ConcConns :
           /\ conn[c].pc = "Returned"
           /\ conn[c].conversationID = 1
           /\ \E k \in 1..Len(conn[c].newMessages) :
                  conn[c].newMessages[k].Role = "tool"
    /\ 1 \in DOMAIN cache
    /\ Len(convs[cache[1].conv].Messages)
           = 2 + Len(conn[1].newMessages) + Len(conn[2].newMessages)

(***************************************************************************)
(* Properties of the resolution of the conversation                        *)
(***************************************************************************)
\* C29: when the id the client sent is in the store at the handler's Get, the
\* turn goes on with that conversation; when the client sent none, or one the
\* store does not hold, a new conversation is created and the turn goes on
\* with it; the turn keeps its conversation, appends to it, and the done
\* message carries its id
C29_ConversationResolution ==
    [][\A c \in ConcConns :
          LET h == conn[c]
              g == conn'[c]
          IN  /\ (h.pc = "Upgrade" /\ g.pc # "Upgrade" /\ g.conversationID = 0)
                     => g.pc \in {"Create", "Returned"}
              /\ (h.pc = "Get" /\ g.pc # "Get")
                     => IF h.conversationID \in DOMAIN cache
                        THEN /\ g.pc = "Read"
                             /\ g.conv = cache[h.conversationID].conv
                             /\ convs[g.conv].ID = h.conversationID
                        ELSE g.pc = "Create"
              /\ (h.pc = "Create" /\ g.pc = "Read")
                     => /\ g.conv = Len(convs) + 1
                        /\ Len(convs') = Len(convs) + 1
                        /\ convs'[g.conv].Messages = <<>>
                        /\ \A k \in 1..Len(convs) : convs[k].ID # convs'[g.conv].ID
                        /\ convs'[g.conv].ID \in DOMAIN cache'
              /\ h.pc \notin {"Upgrade", "Get", "Create", "Returned"}
                     => g.conv = h.conv /\ convs'[g.conv].ID = convs[h.conv].ID
              /\ (h.pc = "Save" /\ g.pc # "Save")
                     => ret'.op = "AddMessages" /\ ret'.id = convs[h.conv].ID
              /\ (h.pc = "Done" /\ g.pc # "Done")
                     => /\ Len(out'[c]) = Len(out[c]) + 1
                        /\ out'[c][Len(out'[c])]
                               = ServerMessage("done", "", convs[h.conv].ID, "")]_vars

\* one connection sent the id of the stored conversation and its done
\* message carries that id; the other sent none and its done message carries
\* the id of the conversation created for it
C29_Witness ==
    /\ conn[1].pc = "Returned" /\ conn[2].pc = "Returned"
    /\ conn[1].conversationID = 1
    /\ out[1][Len(out[1])] = ServerMessage("done", "", 1, "")
    /\ conn[2].conversationID = 0
    /\ out[2][Len(out[2])] = ServerMessage("done", "", 2, "")
    /\ convs[conn[2].conv].ID = 2

(***************************************************************************)
(* Properties of the store under its mutex                                 *)
(***************************************************************************)
\* the goroutines inside Get, Create or AddMessages
Inside == {t \in Threads : thr[t].pc # "idle"}

\* C30: whatever the interleaving of the goroutines, at most one is inside a
\* store call and it holds the mutex; the store changes only in a step of
\* that goroutine, by the whole effect of the Get, Create or AddMessages it
\* called on the store as it is, so that the store's states are those of the
\* calls in the order of their locks; and in every state the total is the sum
\* of the entries' bytes and the recency list lists the cache's entries in the
\* order of their last use
C30_StoreCallsSerialized ==
    [][/\ Cardinality(Inside) <= 1
       /\ \A t \in Inside : mu = t
       /\ Inside = {} => mu = 0
       /\ storeVars' # storeVars
             => \E t \in Inside :
                   /\ thr[t].pc = "found"
                   /\ thr'[t].pc = "idle"
                   /\ \/ thr[t].op = "Get" /\ Get(thr[t].id)
                      \/ thr[t].op = "Create" /\ CreateBy(t, LockNow)
                      \/ /\ thr[t].op = "AddMessages"
                         /\ \E msgs \in Batches :
                                AddMessagesBy(t, thr[t].id, msgs, LockNow)
       /\ curBytes' = SumBytes(cache', DOMAIN cache')
       /\ Range(lru') = DOMAIN cache'
       /\ lru' = SelectSeq(useOrder', LAMBDA x : x \in DOMAIN cache')]_vars

\* three conversations have been created and one evicted, the last call to
\* complete was an AddMessages that found its id, and a goroutine holds the
\* mutex inside a Get that has found its id
C30_Witness ==
    /\ Cardinality(Inside) = 1
    /\ Len(convs) = 3
    /\ Cardinality(DOMAIN cache) < 3
    /\ ret.op = "AddMessages"
    /\ ret.hit
    /\ \E t \in Inside : thr[t].pc = "found" /\ thr[t].op = "Get" /\ thr[t].ok

(***************************************************************************)
(* Properties of the sharing of conversations                              *)
(***************************************************************************)
\* C31: while a connection reads the message list of its conversation to
\* build the model request, no AddMessages of another connection writes that
\* list
C31_NoUnsynchronisedSharing ==
    [][\A c \in ConcConns :
          conn[c].pc = "Building"
             => convs'[conn[c].conv].Messages = convs[conn[c].conv].Messages]_vars

(***************************************************************************)
(* Properties of Create against the specified procedure                    *)
(***************************************************************************)
\* the specified eviction after an insert: from the least-recently-used end
\* while the total exceeds the budget, the entry just inserted excepted
RECURSIVE EvictAfterInsert(_, _, _)
EvictAfterInsert(s, new, max) ==
    IF s.curBytes > max /\ Back(s.lru) # new
    THEN LET oldest == Back(s.lru)
         IN  EvictAfterInsert(
                 StoreState(s.curBytes - s.cache[oldest].bytes,
                            [k \in DOMAIN s.cache \ {oldest} |-> s.cache[k]],
                            Remove(s.lru, oldest)),
                 new, max)
    ELSE s

\* the specified Create: insert at the most-recently-used position, then evict
InsertThenEvict(id, bytes) ==
    EvictAfterInsert(
        StoreState(curBytes + bytes,
                   [k \in DOMAIN cache \cup {id} |->
                       IF k = id THEN [id |-> id, conv |-> id, bytes |-> bytes]
                       ELSE cache[k]],
                   <<id>> \o lru),
        id, maxBytes)

\* C32: every Create ends with the entries, the recency order and the total
\* that inserting the new conversation first and evicting afterwards, never
\* the new entry, ends with
C32_CreateRefinesInsertThenEvict ==
    [][Len(convs') = Len(convs) + 1
          => LET id == Len(convs')
                 s == InsertThenEvict(id, estimateBytes(convs'[id]))
             IN  /\ ret'.op = "Create"
                 /\ id \in DOMAIN cache'
                 /\ cache' = s.cache
                 /\ lru' = s.lru
                 /\ curBytes' = s.curBytes]_vars

\* a Create whose conversation alone exceeds the budget has evicted the other
\* entries and kept the new one
C32_Witness ==
    /\ ret.op = "Create"
    /\ Len(convs) >= 2
    /\ DOMAIN cache = {ret.id}
    /\ cache[ret.id].bytes > maxBytes

(***************************************************************************)
(* Properties of AddMessages                                               *)
(***************************************************************************)
\* C33: an AddMessages whose id the store does not hold returns without an
\* error and leaves the entries, their conversations and sizes, the byte
\* total and the recency order as they were.
C33_UnknownIdNoOp ==
    [][(ret'.op = "AddMessages" /\ ret'.id \notin DOMAIN cache)
          => /\ ret'.err = Nil
             /\ ~ret'.hit
             /\ UNCHANGED <<maxBytes, curBytes, cache, lru, convs>>]_vars

\* C33 witness: AddMessages was called with the id of an evicted conversation
\* while other conversations are held
C33_Witness ==
    /\ ret.op = "AddMessages"
    /\ ret.id \in 1..Len(convs)
    /\ ret.id \notin DOMAIN cache
    /\ ~ret.hit
    /\ lru # <<>>

IsPrefix(q, r) ==
    /\ Len(q) <= Len(r)
    /\ SubSeq(r, 1, Len(q)) = q

\* the transcript the store holds for the id
Stored(id) == convs[cache[id].conv].Messages

\* C34: for every id the store holds before and after a step, the transcript
\* before is a prefix of the transcript after; the AddMessages of a turn puts
\* exactly the messages of the turn at the end, in their order.
C34_AppendOnly ==
    [][\A id \in DOMAIN cache \cap DOMAIN cache' :
          /\ IsPrefix(Stored(id), Stored(id)')
          /\ \A c \in DOMAIN conn :
                 (/\ conn[c].pc = "Save"
                  /\ conn'[c].pc = "Done"
                  /\ convs[conn[c].conv].ID = id)
                 => Stored(id)' = Stored(id) \o conn[c].newMessages]_vars

\* C34 witness: a turn has appended its user message, an assistant message
\* with a tool call, the tool message and the closing assistant message to
\* the stored transcript
C34_Witness ==
    \E c \in DOMAIN conn :
        /\ conn[c].pc = "Done"
        /\ Len(conn[c].newMessages) >= 4
        /\ 1 \in DOMAIN cache
        /\ convs[conn[c].conv].ID = 1
        /\ Len(Stored(1)) = 2 + Len(conn[c].newMessages)
        /\ IsSuffix(conn[c].newMessages, Stored(1))

(***************************************************************************)
(* Properties of the messages sent to the client                           *)
(***************************************************************************)
\* the strings of a list, joined
RECURSIVE Join(_)
Join(q) == IF q = <<>> THEN "" ELSE Head(q) \o Join(Tail(q))

\* the contents of the text messages a connection was sent, in order
TextsSent(c) ==
    LET ts == SelectSeq(out[c], LAMBDA m : m.Type = "text")
    IN  [k \in 1..Len(ts) |-> ts[k].Content]

\* the contents of the assistant messages the turn has built, in order
Said(c) ==
    LET as == SelectSeq(conn[c].newMessages,
                        LAMBDA m : m.Role = "assistant" /\ m.Content # NoContent)
    IN  [k \in 1..Len(as) |-> as[k].Content[1]]

\* the text of the rounds and of the unfinished round is the text sent
TextAccounted(c) ==
    /\ conn[c].pc = "Recv" =>
           Join(TextsSent(c)) = Join(Said(c)) \o conn[c].fullContent
    /\ conn[c].pc \in {"Call", "Tools", "Commit", "Save", "Done"} =>
           Join(TextsSent(c)) = Join(Said(c))

\* C35: the step that takes a chunk with a content delta off the stream sends
\* the delta as a text message (or ends the turn when the write fails), a
\* chunk without content sends nothing, and the step that ends the round
\* builds the assistant message from the deltas sent in the round; so the
\* texts sent are the deltas received, in order, and the text of the
\* assistant messages is the text sent.
C35_TextForwarding ==
    [][\A c \in DOMAIN conn :
          /\ TextAccounted(c)'
          /\ (conn[c].pc = "Recv" /\ conn'[c] # conn[c]) =>
                IF conn[c].streamCh # <<>>
                THEN LET chunk == Head(conn[c].streamCh)
                     IN  IF chunk.Err # Nil
                         THEN /\ TextsSent(c)' = TextsSent(c)
                              /\ conn'[c].pc = "Returned"
                         ELSE IF chunk.Content # ""
                         THEN \/ /\ out'[c] = Append(out[c],
                                        ServerMessage("text", chunk.Content, 0, ""))
                                 /\ conn'[c].fullContent =
                                        conn[c].fullContent \o chunk.Content
                                 /\ conn'[c].streamCh = Tail(conn[c].streamCh)
                                 /\ conn'[c].pc = "Recv"
                              \/ /\ out'[c] = out[c]
                                 /\ conn'[c].pc = "Returned"
                         ELSE /\ out'[c] = out[c]
                              /\ conn'[c].fullContent = conn[c].fullContent
                              /\ conn'[c].streamCh = Tail(conn[c].streamCh)
                ELSE /\ out'[c] = out[c]
                     /\ Last(conn'[c].newMessages).Role = "assistant"
                     /\ Last(conn'[c].newMessages).Content =
                            IF conn[c].fullContent = "" THEN NoContent
                            ELSE strPtr(conn[c].fullContent)]_vars

\* C35 witness: the two deltas of the final answer were sent as two text
\* messages after the text of a tool round, and the round has ended
C35_Witness ==
    \E c \in DOMAIN conn :
        /\ conn[c].pc = "Commit"
        /\ TextsSent(c) = <<"a", "a", "b">>
        /\ Said(c) = <<"a", "ab">>

(***************************************************************************)
(* Properties of the tool messages of a turn                               *)
(***************************************************************************)
\* the assistant message at the place a of msgs is followed by one tool
\* message for each of its tool calls, in their order, with id and name
Mirrored(msgs, a) ==
    LET tcs == msgs[a].ToolCalls
    IN  /\ Len(msgs) >= a + Len(tcs)
        /\ \A k \in 1..Len(tcs) :
               /\ msgs[a + k].Role = "tool"
               /\ msgs[a + k].ToolCallID = tcs[k].ID
               /\ msgs[a + k].Name = tcs[k].Name
        /\ Len(msgs) > a + Len(tcs) => msgs[a + Len(tcs) + 1].Role # "tool"

\* C36: when the handler is about to call the model again, the history and
\* the messages of the turn end with the assistant message of the round and
\* exactly one tool message for each of its tool calls, in the order of the
\* calls, with the id and the function name of the call; the same holds of
\* every earlier round of the turn.
C36_ToolResultsMirrorCalls ==
    \A c \in DOMAIN conn :
        LET h == conn[c]
            new == h.newMessages
            as == {a \in 1..Len(new) : new[a].Role = "assistant"}
        IN  /\ \A a \in as : a < Max(as \cup {0}) =>
                   /\ Len(new[a].ToolCalls) > 0
                   /\ Mirrored(new, a)
            /\ (h.pc = "Call" /\ Len(Rounds(c)) > 0) =>
                   /\ as # {}
                   /\ Len(new[Max(as)].ToolCalls) > 0
                   /\ Mirrored(new, Max(as))
                   /\ Len(new) = Max(as) + Len(new[Max(as)].ToolCalls)
                   /\ IsSuffix(Tail(new), h.messages)

\* C36 witness: after a round with two tool calls the handler is about to
\* call the model again
C36_Witness ==
    \E c \in DOMAIN conn :
        /\ conn[c].pc = "Call"
        /\ Len(conn[c].newMessages) = 4
        /\ conn[c].newMessages[2].ToolCalls = <<statsCall, bogusCall>>
        /\ conn[c].newMessages[3].ToolCallID = "t1"
        /\ conn[c].newMessages[3].Name = "get_stats"
        /\ conn[c].newMessages[4].ToolCallID = "t2"
        /\ conn[c].newMessages[4].Name = "bogus"

(***************************************************************************)
(* Properties of the end of a connection                                   *)
(***************************************************************************)
\* the places of the done and error messages a connection was sent
Terminals(c) == {k \in 1..Len(out[c]) : out[c][k].Type \in {"done", "error"}}

\* C37: a connection is sent at most one message of type done or error; it
\* is the last message sent, every other message is a text and precedes it,
\* the handler has returned, and nothing is sent on the connection afterwards.
C37_OneTerminalMessage ==
    [][\A c \in DOMAIN conn :
          /\ Cardinality(Terminals(c)') <= 1
          /\ \A k \in 1..Len(out'[c]) :
                 IF k \in Terminals(c)'
                 THEN k = Len(out'[c]) /\ conn'[c].pc = "Returned"
                 ELSE out'[c][k].Type = "text"
          /\ IsPrefix(out[c], out'[c])
          /\ Terminals(c) # {} => out'[c] = out[c]]_vars

\* C37 witness: a connection was sent three texts and then done, and has
\* returned
C37_Witness ==
    \E c \in DOMAIN conn :
        /\ conn[c].pc = "Returned"
        /\ Len(out[c]) = 4
        /\ \A k \in 1..3 : out[c][k].Type = "text"
        /\ out[c][4].Type = "done"

(***************************************************************************)
(* Properties of the persistence of a turn                                 *)
(***************************************************************************)
\* the transcript of the conversation of the specification Spec before the
\* turn: the stored conversation has the two messages of the earlier turn, a
\* conversation created for the turn has none
BeforeTurn(k) == IF k = 1 THEN StoredConversation.Messages ELSE <<>>

\* C38: the messages of a conversation change only in the step of a turn's
\* AddMessages, taken by the handler whose transaction was committed just
\* before; a turn that has ended without a done message (with an error
\* message, or after a failed write) has made no append, and has left the
\* transcript of its conversation as it was before the turn.
C38_PersistOnlyAfterCommit ==
    [][/\ \A k \in 1..Len(convs) :
              (convs'[k] # Freed /\ convs'[k].Messages # convs[k].Messages)
              => \E c \in DOMAIN conn :
                     /\ conn[c].pc = "Save"
                     /\ conn'[c].pc = "Done"
                     /\ conn[c].conv = k
                     /\ tx[c] = "committed"
                     /\ Last(conn[c].trace) = Event("commit", "ok", 0)
                     /\ convs'[k].Messages =
                            convs[k].Messages \o conn[c].newMessages
       /\ \A c \in DOMAIN conn :
              (/\ conn'[c].pc = "Returned"
               /\ \A m \in 1..Len(out'[c]) : out'[c][m].Type # "done")
              => /\ Len(Events(conn'[c].trace, "append")) = 0
                 /\ tx'[c] # "committed"
                 /\ (conn'[c].conv # NilConv /\ convs'[conn'[c].conv] # Freed)
                        => convs'[conn'[c].conv].Messages
                               = BeforeTurn(conn'[c].conv)]_vars

\* C38 witness: a turn on the stored conversation had a tool round, its commit
\* failed, and the stored transcript is the one of before the turn
C38_Witness ==
    \E c \in DOMAIN conn :
        /\ conn[c].pc = "Returned"
        /\ conn[c].conv = 1
        /\ Len(conn[c].newMessages) >= 4
        /\ Last(out[c]).Error = "Failed to save changes"
        /\ 1 \in DOMAIN cache
        /\ Stored(1) = StoredConversation.Messages

(***************************************************************************)
(* Properties of the done message                                          *)
(***************************************************************************)
\* C39: when a handler sends the done message, the store holds the
\* conversation whose id the message carries, and its transcript ends with
\* the messages of the turn.
C39_DoneImpliesPersisted ==
    [][\A c \in DOMAIN conn :
          (conn[c].pc = "Done" /\ conn'[c].pc = "Returned")
          => LET id == Last(out'[c]).ConversationID
             IN  /\ Last(out'[c]).Type = "done"
                 /\ id \in DOMAIN cache
                 /\ IsSuffix(conn[c].newMessages, Stored(id))]_vars

(***************************************************************************)
(* Properties of the tool calls of a history                               *)
(***************************************************************************)
\* every assistant message of msgs that carries tool calls is followed at
\* once by one tool message for each of them
Answered(msgs) ==
    \A a \in 1..Len(msgs) :
        (msgs[a].Role = "assistant" /\ Len(msgs[a].ToolCalls) > 0)
        => LET tcs == msgs[a].ToolCalls
           IN  /\ Len(msgs) >= a + Len(tcs)
               /\ \A k \in 1..Len(tcs) :
                      /\ msgs[a + k].Role = "tool"
                      /\ msgs[a + k].ToolCallID = tcs[k].ID

\* C40: the message list of every model call and every transcript in the
\* store have a tool message for each tool call of each assistant message,
\* and the assistant message of a round that ended with the finish reason
\* "stop" carries no tool calls.
C40_NoUnansweredToolCalls ==
    /\ \A msgs \in Transcripts : Answered(msgs)
    /\ \A c \in DOMAIN conn :
           /\ (conn[c].pc = "Recv" /\ conn[c].streamCh # <<>>)
                  => Answered(conn[c].messages)
           /\ \A j \in 1..Len(Rounds(c)) :
                  Rounds(c)[j].a = "stop" => Rounds(c)[j].n = 0

====
